---- MODULE Spec2Model ----
(***************************************************************************)
(* Eterna wallet: the secret-management core (src/core/storage.js,         *)
(* src/core/mnemonic.js, the encryption module and the chain adapters).    *)
(*                                                                         *)
(* The Session Manager (WalletManager) is a singleton whose async methods  *)
(* suspend at every await; each suspended call is a slot of `calls` with   *)
(* its position (pc) and its locals, and every resumption is one action.   *)
(* Timers (setTimeout) are pending records with the time left until they   *)
(* fire (milliseconds); time passes from one timer expiry to the next.     *)
(***************************************************************************)
EXTENDS Integers, Sequences, FiniteSets, TLC

----------------------------------------------------------------------------
(* Bounds of the model *)

MaxCalls == 2        \* async calls of the Session Manager in flight at once
MaxWallets == 2      \* wallet ids that generateId hands out
MaxTimers == 2       \* setTimeout timers pending at once
MaxPending == 2      \* startAutoLock calls suspended at loadSetting at once
MaxCreates == 1      \* createWallet and importWallet calls in flight at once
MaxBackups == 1      \* exportBackup and importBackup calls in flight at once

----------------------------------------------------------------------------
(* Values *)

Null == "null"
Undefined == "undefined"
NoId == 0
NoPhrase == << >>    \* null where a phrase (string) is expected

Passwords == {"pw1", "pw2"}

\* scripts of chain managers present on the page (typeof X !== 'undefined')
LoadedScripts == {"Tron", "Bitcoin"}

\* chain identifiers that the callers pass
ChainInputs == {"tron", "bitcoin", "dogecoin"}

\* values the settings screen stores under 'autoLockDelay' (seconds)
DelaySettings == {0, 300}

----------------------------------------------------------------------------
(* Mnemonic Engine: src/core/mnemonic.js *)

wordList ==
  << "abandon", "ability", "able", "about", "above", "absent", "absorb", "abstract", "absurd", "abuse",
     "access", "accident", "account", "accuse", "achieve", "acid", "acoustic", "acquire", "across", "act",
     "action", "actor", "actress", "actual", "adapt", "add", "addict", "address", "adjust", "admit",
     "adult", "advance", "advice", "aerobic", "affair", "afford", "afraid", "again", "age", "agent",
     "agree", "ahead", "aim", "air", "airport", "aisle", "alarm", "album", "alcohol", "alert",
     "zone" >>

wordCount == <<12, 15, 18, 21, 24>>

SeqIncludes(s, x) == \E k \in 1..Len(s) : s[k] = x

\* Array.prototype.indexOf (0-based, -1 when absent)
IndexOf(s, x) ==
  IF SeqIncludes(s, x) THEN (CHOOSE k \in 1..Len(s) : s[k] = x /\ \A j \in 1..(k-1) : s[j] # x) - 1
  ELSE -1

RECURSIVE Pow2(_)
Pow2(n) == IF n = 0 THEN 1 ELSE 2 * Pow2(n - 1)

\* (number >> i) & 1 on a two's complement integer (i < 31): a negative
\* number has the complemented bits of -number - 1
BitAt(number, i) ==
  IF number < 0 THEN 1 - ((((0 - number) - 1) \div Pow2(i)) % 2)
  ELSE (number \div Pow2(i)) % 2

numberToBits(number, length) == [k \in 1..length |-> BitAt(number, length - k)]

byteToBits(byte) == [k \in 1..8 |-> BitAt(byte, 8 - k)]

\* number = (number << 1) | bits[i]; the callers pass at most 11 bits, far
\* from the 32-bit width of <<
RECURSIVE bitsToNumber(_)
bitsToNumber(bits) ==
  IF Len(bits) = 0 THEN 0
  ELSE 2 * bitsToNumber(SubSeq(bits, 1, Len(bits) - 1)) + bits[Len(bits)]

\* Array.prototype.slice(from, to) with 0-based bounds clamped to the array
Slice(s, from, to) ==
  LET hi == IF to > Len(s) THEN Len(s) ELSE to
  IN IF from >= hi THEN << >> ELSE SubSeq(s, from + 1, hi)

RECURSIVE Flatten(_)
Flatten(ss) == IF Len(ss) = 0 THEN << >> ELSE Head(ss) \o Flatten(Tail(ss))

\* window.crypto.subtle.digest returns a Promise; sha256 returns it unawaited
sha256(data) == [type |-> "Promise"]

\* .length of the value sha256 returned: a Promise has none, so the loops
\* "for (i = 0; i < hash.length; i++)" run zero times
HashByteCount(hash) == IF hash.type = "Promise" THEN 0 ELSE Len(hash.bytes)

hashBitsOf(hash) == Flatten([k \in 1..HashByteCount(hash) |-> byteToBits(hash.bytes[k])])

\* wordList[index]: undefined outside the array
WordAt(index) == IF index + 1 \in 1..Len(wordList) THEN wordList[index + 1] ELSE Undefined

\* Array.prototype.join(' '): undefined elements become empty strings.
\* A string is kept as the sequence of its pieces between single spaces.
JoinSpace(words) == [k \in 1..Len(words) |-> IF words[k] = Undefined THEN "" ELSE words[k]]

entropyToMnemonic(entropy) ==
  LET hash == sha256(entropy)
      checksumBits == (Len(entropy) * 8) \div 32
      ebits == Flatten([k \in 1..Len(entropy) |-> byteToBits(entropy[k])])
      bits == ebits \o Slice(hashBitsOf(hash), 0, checksumBits)
      n == (Len(bits) + 10) \div 11
      words == [k \in 1..n |-> WordAt(bitsToNumber(Slice(bits, (k - 1) * 11, (k - 1) * 11 + 11)))]
  IN JoinSpace(words)

\* entropy values that generateSecureRandom(16) may return
Entropies ==
  { [k \in 1..16 |-> 0],
    [k \in 1..16 |-> IF k = 16 THEN 3 ELSE 0] }

\* a generateMnemonic that falls back to 12 words for a count it does not know
generateMnemonicDefault(wc, entropy) ==
  [ok |-> TRUE, drawn |-> 1, mnemonic |-> entropyToMnemonic(entropy)]

\* generateMnemonic(wordCount) when generateSecureRandom returns entropy;
\* drawn |-> the number of calls of generateSecureRandom it made
generateMnemonic(wc, entropy) ==
  IF ~SeqIncludes(wordCount, wc) THEN [ok |-> FALSE, drawn |-> 0, error |-> "InvalidWordCount"]
  ELSE [ok |-> TRUE, drawn |-> 1, mnemonic |-> entropyToMnemonic(entropy)]

\* mnemonic.trim().split(/\s+/g): the non-empty pieces, or [""] when none
SplitWS(str) ==
  LET ne == SelectSeq(str, LAMBDA w : w # "")
  IN IF Len(ne) = 0 THEN << "" >> ELSE ne

mnemonicToEntropy(str) ==
  LET words == SplitWS(str)
      bits == Flatten([k \in 1..Len(words) |-> numberToBits(IndexOf(wordList, words[k]), 11)])
      checksumBits == Len(bits) \div 33
      entropyBits == Len(bits) - checksumBits
      n == (entropyBits + 7) \div 8
  IN [k \in 1..n |-> bitsToNumber(Slice(bits, (k - 1) * 8, (k - 1) * 8 + 8))]

\* element i of an array of bits; undefined (written -1, equal to no bit)
\* past its end
ElemOrUndefined(s, i) == IF i + 1 \in 1..Len(s) THEN s[i + 1] ELSE -1

verifyChecksum(entropy) ==
  LET hash == sha256(entropy)
      checksumBits == (Len(entropy) * 8) \div 32
      hashBits == hashBitsOf(hash)
      words == entropyToMnemonic(entropy)       \* split(' ') of the joined string
      bits == Flatten([k \in 1..Len(words) |-> numberToBits(IndexOf(wordList, words[k]), 11)])
      extractedChecksum == Slice(bits, Len(bits) - checksumBits, Len(bits))
      expectedChecksum == Slice(hashBits, 0, checksumBits)
  IN \A i \in 0..(checksumBits - 1) :
        ElemOrUndefined(extractedChecksum, i) = ElemOrUndefined(expectedChecksum, i)

\* a validateMnemonic without the loop over the words
validateMnemonicNoWordCheck(str) ==
  IF str = NoPhrase THEN [valid |-> FALSE, error |-> "Invalid mnemonic format"]
  ELSE LET words == SplitWS(str)
       IN IF ~SeqIncludes(wordCount, Len(words))
            THEN [valid |-> FALSE, error |-> "Invalid word count"]
          ELSE IF ~verifyChecksum(mnemonicToEntropy(str))
            THEN [valid |-> FALSE, error |-> "Invalid checksum"]
          ELSE [valid |-> TRUE, error |-> Null]

\* an input that is null, empty or not a string is NoPhrase
validateMnemonic(str) ==
  IF str = NoPhrase THEN [valid |-> FALSE, error |-> "Invalid mnemonic format"]
  ELSE LET words == SplitWS(str)
       IN IF ~SeqIncludes(wordCount, Len(words))
            THEN [valid |-> FALSE, error |-> "Invalid word count"]
          ELSE IF \E k \in 1..Len(words) : ~SeqIncludes(wordList, words[k])
            THEN [valid |-> FALSE, error |-> "Invalid word"]
          ELSE IF ~verifyChecksum(mnemonicToEntropy(str))
            THEN [valid |-> FALSE, error |-> "Invalid checksum"]
          ELSE [valid |-> TRUE, error |-> Null]

\* mnemonicToSeed: PBKDF2 of the normalised phrase, a function of the phrase
mnemonicToSeed(str) == [seedOf |-> str]

----------------------------------------------------------------------------
(* Cipher Engine (the encryption module), as far as the Session Manager    *)
(* sees it: an envelope opens under the password it was sealed with.       *)

\* encrypt(data, password): deriveKey rejects an empty password and
\* crypto.subtle.encrypt rejects data that is null; both surface as
\* 'Failed to encrypt data'
encrypt(data, password) ==
  IF password = "" \/ data = NoPhrase THEN [ok |-> FALSE, error |-> "EncryptionFailed"]
  ELSE [ok |-> TRUE, envelope |-> [pt |-> data, pw |-> password]]

\* decrypt(envelope, password): AES-GCM authenticates the key, so only the
\* sealing password opens the envelope; every failure is the same error
decrypt(envelope, password) ==
  IF password # "" /\ password = envelope.pw THEN [ok |-> TRUE, result |-> envelope.pt]
  ELSE [ok |-> FALSE, error |-> "DecryptionFailed"]

----------------------------------------------------------------------------
(* Chain adapters: src/chains/ethereum.js and the Tron and Bitcoin managers *)

EmptyMap == [c \in {} |-> 0]

MapPut(f, k, v) == [c \in (DOMAIN f) \cup {k} |-> IF c = k THEN v ELSE f[c]]

MapDel(f, k) == [c \in (DOMAIN f) \ {k} |-> f[c]]

\* WalletManager.initChains: the registry, in insertion order
chainOrder ==
  (IF "Ethereum" \in LoadedScripts THEN << "ethereum", "bsc", "polygon" >> ELSE << >>)
  \o (IF "Tron" \in LoadedScripts THEN << "tron" >> ELSE << >>)
  \o (IF "Bitcoin" \in LoadedScripts THEN << "bitcoin" >> ELSE << >>)

chains ==
  [c \in {chainOrder[k] : k \in 1..Len(chainOrder)} |->
     IF c \in {"ethereum", "bsc", "polygon"} THEN "Ethereum"
     ELSE IF c = "tron" THEN "Tron" ELSE "Bitcoin"]

\* phrases that ethers.Wallet.fromMnemonic accepts (a valid BIP-39
\* checksum under the full word list); it throws on every other input
EthersValid == { [k \in 1..12 |-> IF k = 12 THEN "about" ELSE "abandon"] }

fromMnemonic(phrase, adapter) ==
  IF phrase \in EthersValid THEN [ok |-> TRUE, of |-> phrase, path |-> adapter]
  ELSE [ok |-> FALSE]

\* getAddressFromSeed(seed): the Ethereum and Tron managers ignore the seed
\* and read Wallet.wallet.mnemonic of the singleton (a TypeError when
\* Wallet.wallet is null); the Bitcoin manager returns a fixed placeholder.
\* w is the value of Wallet.wallet at the time of the call.
getAddressFromSeed(adapter, seed, w) ==
  IF adapter = "Bitcoin" THEN [ok |-> TRUE, address |-> [path |-> "Bitcoin", of |-> NoPhrase]]
  ELSE IF w.id = NoId THEN [ok |-> FALSE]
  ELSE LET ew == fromMnemonic(w.mnemonic, adapter)
       IN IF ew.ok THEN [ok |-> TRUE, address |-> [path |-> ew.path, of |-> ew.of]]
          ELSE [ok |-> FALSE]

\* only the Ethereum and Tron managers define getPrivateKeyFromMnemonic
HasPrivateKeyDerivation(adapter) == adapter \in {"Ethereum", "Tron"}

getPrivateKeyFromMnemonic(adapter, phrase) ==
  LET ew == fromMnemonic(phrase, adapter)
  IN IF ew.ok THEN [ok |-> TRUE, key |-> [path |-> ew.path, of |-> ew.of]]
     ELSE [ok |-> FALSE]

----------------------------------------------------------------------------
(* Results of the Mnemonic Engine for the inputs of the model *)

\* Mnemonic.generateMnemonic(12) for each entropy value
generated == [e \in Entropies |-> generateMnemonic(12, e)]

\* phrases that callers pass to importWallet
ImportInputs ==
  { [k \in 1..12 |-> IF k = 12 THEN "about" ELSE "abandon"],
    [k \in 1..12 |-> IF k = 12 THEN "badword" ELSE "abandon"],
    << "abandon", "ability", "able" >>,
    NoPhrase }

\* Mnemonic.validateMnemonic(mnemonic) for each of them
validated == [p \in ImportInputs |-> validateMnemonic(p)]

----------------------------------------------------------------------------
(* State *)

VARIABLES
  wallet,          \* WalletManager.wallet: the object it refers to, or NoWallet
  mnemonic,        \* WalletManager.mnemonic
  privateKeys,     \* WalletManager.privateKeys: chain -> [key, age since set]
  providers,       \* WalletManager.providers: the chains that have a provider
  isLocked,        \* WalletManager.isLocked
  autoLockTimer,   \* WalletManager.autoLockTimer: a timer handle
  timers,          \* pending setTimeout timers: id -> [kind, chain, left]
  autoLockPending, \* startAutoLock calls suspended at "await loadSetting"
  dbWallets,       \* object store 'wallets': id -> record
  dbSettings,      \* object store 'settings': key -> value
  dbTransactions,  \* object store 'transactions': id -> record
  dbTokens,        \* object store 'tokens': address -> record
  backup,          \* the backup file the user holds, or NoBackup
  calls,           \* async calls in flight: slot -> position and locals
  nextId,          \* the next id of generateId (ids sort in creation order)
  ret,             \* what the last step returned or threw to its caller
  sinceLock        \* history: lock() ran and no unlock succeeded since

vars == << wallet, mnemonic, privateKeys, providers, isLocked, autoLockTimer, timers,
           autoLockPending, dbWallets, dbSettings, dbTransactions, dbTokens, backup,
           calls, nextId, ret, sinceLock >>

NoTimer == 0         \* autoLockTimer undefined or null
DeadTimer == 0 - 1   \* handle of a timer that has fired or was cleared
KeyTTL == 30000      \* setTimeout(..., 30000) of getPrivateKey
DefaultDelay == 300  \* loadSetting('autoLockDelay', 300)

\* ages are not counted past this
AgeCap == KeyTTL + KeyTTL

\* no backup file has been exported
NoBackup == [format |-> "none"]

\* no backup document has been read or parsed
NoDoc == [version |-> Null]

\* the collections that a backup replaces, all empty
NoStores == [wallets |-> EmptyMap, transactions |-> EmptyMap, tokens |-> EmptyMap]

\* no transaction object
NoTx == [hasFrom |-> FALSE, hash |-> ""]

NoWallet == [id |-> NoId, mnemonic |-> NoPhrase, addresses |-> EmptyMap, owner |-> 0]

Slots == 1..MaxCalls

Idle == [op |-> "idle", pc |-> "idle", pw |-> "", chain |-> "", todo |-> << >>,
         id |-> NoId, made |-> NoId, addresses |-> EmptyMap, pend |-> [ok |-> FALSE],
         data |-> NoPhrase, seed |-> [seedOf |-> NoPhrase], gen |-> NoPhrase,
         startedLocked |-> FALSE, allOk |-> TRUE,
         file |-> NoBackup, doc |-> NoDoc, before |-> NoStores, seen |-> NoStores, quiet |-> TRUE,
         tx |-> NoTx]

NoRet == [op |-> "none", ok |-> TRUE, err |-> ""]

Ok(op) == [op |-> op, ok |-> TRUE, err |-> ""]

Err(op, e) == [op |-> op, ok |-> FALSE, err |-> e]

FreeSlot(i) == calls[i].op = "idle" /\ \A j \in 1..(i - 1) : calls[j].op # "idle"

\* a createWallet, importWallet or clearWallet call is in flight
WalletOpInFlight == \E i \in Slots : calls[i].op \in {"createWallet", "importWallet", "clearWallet"}

\* the fields of the WalletManager singleton and the timers of the page
Session ==
  [wallet |-> wallet, mnemonic |-> mnemonic, privateKeys |-> privateKeys,
   providers |-> providers, isLocked |-> isLocked, autoLockTimer |-> autoLockTimer,
   timers |-> timers]

SetSession(s) ==
  /\ wallet' = s.wallet
  /\ mnemonic' = s.mnemonic
  /\ privateKeys' = s.privateKeys
  /\ providers' = s.providers
  /\ isLocked' = s.isLocked
  /\ autoLockTimer' = s.autoLockTimer
  /\ timers' = s.timers

sessionVars == << wallet, mnemonic, privateKeys, providers, isLocked, autoLockTimer, timers >>

clearTimeout(ts, h) == IF h \in DOMAIN ts THEN MapDel(ts, h) ELSE ts

\* WalletManager.clearSensitiveData
clearSensitiveData(s) ==
  [s EXCEPT !.mnemonic = NoPhrase,
            !.privateKeys = EmptyMap,
            !.wallet = IF @.id # NoId THEN [@ EXCEPT !.mnemonic = NoPhrase] ELSE @]

\* a lock that clears the secrets and the timer but leaves the flag as it is
lockWithoutFlag(s) ==
  LET c == clearSensitiveData(s)
  IN [c EXCEPT !.providers = {},
               !.timers = IF c.autoLockTimer # NoTimer THEN clearTimeout(@, c.autoLockTimer) ELSE @,
               !.autoLockTimer = NoTimer]

\* WalletManager.lock
lock(s) ==
  LET c == clearSensitiveData(s)
  IN [c EXCEPT !.providers = {},
               !.isLocked = TRUE,
               !.timers = IF c.autoLockTimer # NoTimer THEN clearTimeout(@, c.autoLockTimer) ELSE @,
               !.autoLockTimer = NoTimer]

\* WalletManager.startAutoLock up to its await: the pending timer of the
\* handle is cleared, the handle itself is kept
startAutoLockSync(s) ==
  [s EXCEPT !.timers = IF s.autoLockTimer # NoTimer THEN clearTimeout(@, s.autoLockTimer) ELSE @,
            !.autoLockTimer = IF @ = NoTimer THEN NoTimer ELSE DeadTimer]

FreeTimerId == CHOOSE t \in 1..MaxTimers : t \notin DOMAIN timers /\ \A u \in 1..(t - 1) : u \in DOMAIN timers

CanArm == Cardinality(DOMAIN timers) < MaxTimers

\* StorageManager.loadSetting(key, defaultValue)
loadSetting(key, defaultValue) == IF key \in DOMAIN dbSettings THEN dbSettings[key] ELSE defaultValue

\* StorageManager.getWalletInfo: wallets[0] of getAll, which lists by key
getWalletInfo(db) ==
  IF DOMAIN db = {} THEN NoId
  ELSE CHOOSE id \in DOMAIN db : \A other \in DOMAIN db : id <= other

\* a loadWallet that reports a missing record as a failed decryption
loadWalletOneError(db, walletId, password) ==
  IF walletId \notin DOMAIN db THEN [ok |-> FALSE, error |-> "DecryptionFailed"]
  ELSE LET d == decrypt(db[walletId].encryptedMnemonic, password)
       IN IF ~d.ok THEN [ok |-> FALSE, error |-> d.error]
          ELSE [ok |-> TRUE,
                wallet |-> [id |-> walletId, mnemonic |-> d.result,
                            addresses |-> db[walletId].addresses, owner |-> 0]]

\* StorageManager.loadWallet(walletId, password) on the record it read
loadWallet(db, walletId, password) ==
  IF walletId \notin DOMAIN db THEN [ok |-> FALSE, error |-> "WalletNotFound"]
  ELSE LET d == decrypt(db[walletId].encryptedMnemonic, password)
       IN IF ~d.ok THEN [ok |-> FALSE, error |-> d.error]
          ELSE [ok |-> TRUE,
                wallet |-> [id |-> walletId, mnemonic |-> d.result,
                            addresses |-> db[walletId].addresses, owner |-> 0]]

\* unlock after "this.wallet = await Storage.loadWallet(...)": lines 704-705
unlockLoaded(s, w) == [s EXCEPT !.wallet = w, !.mnemonic = w.mnemonic]

\* unlock after "await this.initProviders()": lines 708-713
unlockOpened(s) ==
  startAutoLockSync([s EXCEPT !.providers = DOMAIN chains, !.isLocked = FALSE])

\* getAddress(chain): lines 756-766
getAddress(s, chain) ==
  IF s.isLocked THEN [ok |-> FALSE, error |-> "WalletLocked"]
  ELSE IF s.wallet.id = NoId \/ chain \notin DOMAIN s.wallet.addresses
    THEN [ok |-> FALSE, error |-> "NoAddress"]
  ELSE [ok |-> TRUE, address |-> s.wallet.addresses[chain]]

Init ==
  /\ wallet = NoWallet
  /\ mnemonic = NoPhrase
  /\ privateKeys = EmptyMap
  /\ providers = {}
  /\ isLocked = TRUE
  /\ autoLockTimer = NoTimer
  /\ timers = EmptyMap
  /\ autoLockPending = 0
  /\ dbWallets = EmptyMap
  /\ dbSettings = EmptyMap
  /\ dbTransactions = EmptyMap
  /\ dbTokens = EmptyMap
  /\ backup = NoBackup
  /\ calls = [i \in Slots |-> Idle]
  /\ nextId = 1
  /\ ret = NoRet
  /\ sinceLock = FALSE

----------------------------------------------------------------------------
(* unlock(password): lines 696-722.  The same steps run as the last part   *)
(* of createWallet and importWallet, whose catch block then runs too.      *)

InUnlock(c) == c.pc \in {"info", "load", "providers"}

\* unlock throws: catch -> this.lock(); a surrounding createWallet or
\* importWallet catches the rethrown error and calls clearSensitiveData
\* (importBackup has no catch block: the error passes through it)
UnlockFails(i, e) ==
  /\ SetSession(IF calls[i].op \in {"unlock", "importBackup"} THEN lock(Session)
                ELSE clearSensitiveData(lock(Session)))
  /\ calls' = [calls EXCEPT ![i] = Idle]
  /\ ret' = Err(calls[i].op, e)
  /\ sinceLock' = TRUE
  /\ UNCHANGED << autoLockPending, dbWallets, dbSettings, dbTransactions, dbTokens, backup, nextId >>

Unlock(i, password) ==
  /\ FreeSlot(i)
  /\ calls' = [calls EXCEPT ![i] = [Idle EXCEPT !.op = "unlock", !.pc = "info", !.pw = password]]
  /\ ret' = NoRet
  /\ UNCHANGED << sessionVars, autoLockPending, dbWallets, dbSettings, dbTransactions, dbTokens, backup, nextId, sinceLock >>

\* getWalletInfo resolved
UnlockInfoDone(i) ==
  /\ calls[i].pc = "info"
  /\ LET id == getWalletInfo(dbWallets)
     IN IF id = NoId THEN UnlockFails(i, "NoWalletFound")
        ELSE /\ calls' = [calls EXCEPT ![i].pc = "load", ![i].id = id]
             /\ ret' = NoRet
             /\ UNCHANGED << sessionVars, autoLockPending, dbWallets, dbSettings, dbTransactions, dbTokens, backup, nextId,
                             sinceLock >>

\* loadWallet resolved (get, then decrypt); initProviders starts
UnlockLoadDone(i) ==
  /\ calls[i].pc = "load"
  /\ LET r == loadWallet(dbWallets, calls[i].id, calls[i].pw)
     IN IF ~r.ok THEN UnlockFails(i, r.error)
        ELSE /\ SetSession(unlockLoaded(Session, r.wallet))
             /\ calls' = [calls EXCEPT ![i].pc = "providers"]
             /\ ret' = NoRet
             /\ UNCHANGED << autoLockPending, dbWallets, dbSettings, dbTransactions, dbTokens, backup, nextId, sinceLock >>

\* initProviders resolved (its awaits touch this.providers only); unlock
\* sets isLocked = false, calls startAutoLock and returns
UnlockProviderDone(i) ==
  /\ calls[i].pc = "providers"
  /\ autoLockPending < MaxPending
  /\ SetSession(unlockOpened(Session))
  /\ autoLockPending' = autoLockPending + 1
  /\ calls' = [calls EXCEPT ![i] = Idle]
  /\ ret' = Ok(calls[i].op)
  /\ sinceLock' = FALSE
  /\ UNCHANGED << dbWallets, dbSettings, dbTransactions, dbTokens, backup, nextId >>

----------------------------------------------------------------------------
(* lock(), startAutoLock, resetAutoLock and the auto-lock timeout *)

Lock ==
  /\ SetSession(lock(Session))
  /\ ret' = NoRet
  /\ sinceLock' = TRUE
  /\ UNCHANGED << autoLockPending, dbWallets, dbSettings, dbTransactions, dbTokens, backup, calls, nextId >>

\* the timer delay of startAutoLock (ms)
AutoLockDelay == loadSetting("autoLockDelay", DefaultDelay) * 1000

\* startAutoLock after "await Storage.loadSetting('autoLockDelay', 300)"
StartAutoLockDone ==
  /\ autoLockPending > 0
  /\ autoLockPending' = autoLockPending - 1
  /\ IF AutoLockDelay > 0
       THEN /\ CanArm
            /\ timers' = MapPut(timers, FreeTimerId,
                                [kind |-> "autolock", chain |-> "", left |-> AutoLockDelay])
            /\ autoLockTimer' = FreeTimerId
       ELSE UNCHANGED << timers, autoLockTimer >>
  /\ ret' = NoRet
  /\ UNCHANGED << wallet, mnemonic, privateKeys, providers, isLocked, dbWallets, dbSettings, dbTransactions, dbTokens, backup,
                  calls, nextId, sinceLock >>

ResetAutoLock ==
  /\ ~isLocked
  /\ autoLockPending < MaxPending
  /\ SetSession(startAutoLockSync(Session))
  /\ autoLockPending' = autoLockPending + 1
  /\ ret' = NoRet
  /\ UNCHANGED << dbWallets, dbSettings, dbTransactions, dbTokens, backup, calls, nextId, sinceLock >>

\* the callback of the auto-lock timer
AutoLockTimeout(t) ==
  /\ t \in DOMAIN timers
  /\ timers[t].kind = "autolock"
  /\ timers[t].left = 0
  /\ LET fired == [Session EXCEPT !.timers = MapDel(@, t),
                                  !.autoLockTimer = IF @ = t THEN DeadTimer ELSE @]
     IN IF ~isLocked
          THEN SetSession(lock(fired)) /\ sinceLock' = TRUE
          ELSE SetSession(fired) /\ UNCHANGED sinceLock
  /\ ret' = NoRet
  /\ UNCHANGED << autoLockPending, dbWallets, dbSettings, dbTransactions, dbTokens, backup, calls, nextId >>

\* StorageManager.saveSetting('autoLockDelay', value) from the settings screen
SaveSetting(value) ==
  /\ dbSettings' = MapPut(dbSettings, "autoLockDelay", value)
  /\ ret' = NoRet
  /\ UNCHANGED << sessionVars, autoLockPending, dbWallets, dbTransactions, dbTokens, backup,
                  calls, nextId, sinceLock >>

----------------------------------------------------------------------------
(* getAddress and getPrivateKey *)

GetAddress(chain) ==
  /\ LET r == getAddress(Session, chain)
     IN ret' = IF r.ok THEN Ok("getAddress") ELSE Err("getAddress", r.error)
  /\ UNCHANGED << sessionVars, autoLockPending, dbWallets, dbSettings, dbTransactions, dbTokens, backup, calls, nextId,
                  sinceLock >>

\* getBalance(chain) with no address argument, up to the call of the
\* adapter: lines 771-789
getBalance(s, chain) ==
  IF s.isLocked THEN [ok |-> FALSE, error |-> "WalletLocked"]
  ELSE IF chain \notin DOMAIN chains THEN [ok |-> FALSE, error |-> "UnsupportedChain"]
  ELSE IF ~getAddress(s, chain).ok THEN [ok |-> FALSE, error |-> getAddress(s, chain).error]
  ELSE IF chain \notin s.providers THEN [ok |-> FALSE, error |-> "ProviderNotAvailable"]
  ELSE [ok |-> TRUE, address |-> getAddress(s, chain).address]

\* the call has passed its checks when it hands the address to the adapter
GetBalance(chain) ==
  /\ LET r == getBalance(Session, chain)
     IN ret' = IF r.ok THEN Ok("getBalance") ELSE Err("getBalance", r.error)
  /\ UNCHANGED << sessionVars, autoLockPending, dbWallets, dbSettings, dbTransactions, dbTokens,
                  backup, calls, nextId, sinceLock >>

\* getPrivateKey(chain) up to its await: lines 867-885
getPrivateKeyEntry(s, chain) ==
  IF s.isLocked \/ s.mnemonic = NoPhrase THEN [ok |-> FALSE, error |-> "WalletLocked", cached |-> FALSE]
  ELSE IF chain \in DOMAIN s.privateKeys THEN [ok |-> TRUE, cached |-> TRUE, key |-> s.privateKeys[chain].key]
  ELSE IF chain \notin DOMAIN chains \/ ~HasPrivateKeyDerivation(chains[chain])
    THEN [ok |-> FALSE, error |-> "DerivationNotSupported", cached |-> FALSE]
  ELSE [ok |-> TRUE, cached |-> FALSE, key |-> getPrivateKeyFromMnemonic(chains[chain], s.mnemonic)]

GetPrivateKey(i, chain) ==
  /\ FreeSlot(i)
  /\ LET r == getPrivateKeyEntry(Session, chain)
     IN IF ~r.ok
          THEN ret' = Err("getPrivateKey", r.error) /\ UNCHANGED calls
        ELSE IF r.cached
          THEN ret' = Ok("getPrivateKey") /\ UNCHANGED calls
        ELSE /\ calls' = [calls EXCEPT ![i] = [Idle EXCEPT !.op = "getPrivateKey", !.pc = "derive",
                                                           !.chain = chain, !.pend = r.key]]
             /\ ret' = NoRet
  /\ UNCHANGED << sessionVars, autoLockPending, dbWallets, dbSettings, dbTransactions, dbTokens, backup, nextId, sinceLock >>

\* an eviction timer set to twice the time to live
EvictDelayLate == KeyTTL + KeyTTL

\* the delay of the eviction timer: setTimeout(..., 30000)
EvictDelay == KeyTTL

\* getPrivateKeyFromMnemonic resolved or rejected: lines 887-895
GetPrivateKeyDone(i) ==
  /\ calls[i].pc = "derive"
  /\ LET c == calls[i]
     IN IF ~c.pend.ok
          THEN /\ ret' = Err("getPrivateKey", "DerivationFailed")
               /\ UNCHANGED << privateKeys, timers >>
          ELSE /\ CanArm
               /\ privateKeys' = MapPut(privateKeys, c.chain, [key |-> c.pend.key, age |-> 0])
               /\ timers' = MapPut(timers, FreeTimerId,
                                   [kind |-> "evict", chain |-> c.chain, left |-> EvictDelay])
               /\ ret' = Ok("getPrivateKey")
  /\ calls' = [calls EXCEPT ![i] = Idle]
  /\ UNCHANGED << wallet, mnemonic, providers, isLocked, autoLockTimer, autoLockPending,
                  dbWallets, dbSettings, dbTransactions, dbTokens, backup, nextId, sinceLock >>

----------------------------------------------------------------------------
(* sendTransaction(chain, transaction): lines 817-862 *)

\* ids (hashes) of the transactions that callers save
TxInputs == {"tx1"}

\* the transaction objects that callers pass (with or without a from
\* member) and the hash that the chain gives the broadcast
TxObjects == {[hasFrom |-> f, hash |-> h] : f \in BOOLEAN, h \in TxInputs}

\* sendTransaction calls in flight
SendsInFlight == Cardinality({i \in Slots : calls[i].op = "sendTransaction"})

\* "from: transaction.from || this.getAddress(chain)": line 848
sendFrom(s, chain, transaction) ==
  IF transaction.hasFrom THEN [ok |-> TRUE]
  ELSE LET a == getAddress(s, chain)
       IN IF a.ok THEN [ok |-> TRUE] ELSE [ok |-> FALSE, error |-> a.error]

\* sendTransaction up to its first await that yields: the checks and the
\* synchronous part of getPrivateKey; a cached key is returned at once and
\* the call goes on to the provider check and the adapter
SendTransaction(i, chain, transaction) ==
  /\ FreeSlot(i)
  /\ LET r == getPrivateKeyEntry(Session, chain)
     IN IF isLocked
          THEN ret' = Err("sendTransaction", "WalletLocked") /\ UNCHANGED calls
        ELSE IF chain \notin DOMAIN chains
          THEN ret' = Err("sendTransaction", "UnsupportedChain") /\ UNCHANGED calls
        ELSE IF ~r.ok
          THEN ret' = Err("sendTransaction", r.error) /\ UNCHANGED calls
        ELSE IF r.cached /\ chain \notin providers
          THEN ret' = Err("sendTransaction", "ProviderNotAvailable") /\ UNCHANGED calls
        ELSE /\ calls' = [calls EXCEPT ![i] =
                  [Idle EXCEPT !.op = "sendTransaction", !.chain = chain, !.tx = transaction,
                               !.pc = IF r.cached THEN "broadcast" ELSE "sendKey",
                               !.pend = IF r.cached THEN [ok |-> FALSE] ELSE r.key]]
             /\ ret' = NoRet
  /\ UNCHANGED << sessionVars, autoLockPending, dbWallets, dbSettings, dbTransactions, dbTokens,
                  backup, nextId, sinceLock >>

\* getPrivateKeyFromMnemonic resolved or rejected: getPrivateKey caches the
\* key and arms its timer (lines 887-895), then sendTransaction looks up
\* the provider and calls the adapter, which signs and broadcasts
SendKeyDone(i) ==
  /\ calls[i].pc = "sendKey"
  /\ LET c == calls[i]
     IN IF ~c.pend.ok
          THEN /\ ret' = Err("sendTransaction", "DerivationFailed")
               /\ calls' = [calls EXCEPT ![i] = Idle]
               /\ UNCHANGED << privateKeys, timers >>
          ELSE /\ CanArm
               /\ privateKeys' = MapPut(privateKeys, c.chain, [key |-> c.pend.key, age |-> 0])
               /\ timers' = MapPut(timers, FreeTimerId,
                                   [kind |-> "evict", chain |-> c.chain, left |-> EvictDelay])
               /\ IF c.chain \notin providers
                    THEN /\ ret' = Err("sendTransaction", "ProviderNotAvailable")
                         /\ calls' = [calls EXCEPT ![i] = Idle]
                    ELSE /\ ret' = NoRet
                         /\ calls' = [calls EXCEPT ![i].pc = "broadcast", ![i].pend = [ok |-> FALSE]]
  /\ UNCHANGED << wallet, mnemonic, providers, isLocked, autoLockTimer, autoLockPending,
                  dbWallets, dbSettings, dbTransactions, dbTokens, backup, nextId, sinceLock >>

\* chainManager.sendTransaction resolved with a hash (sent) or rejected; with
\* a hash the record for the history is built, which may call getAddress,
\* and saveTransaction is called
SendBroadcastDone(i, sent) ==
  /\ calls[i].pc = "broadcast"
  /\ LET c == calls[i]
         from == sendFrom(Session, c.chain, c.tx)
     IN IF ~sent
          THEN ret' = Err("sendTransaction", "BroadcastFailed") /\ calls' = [calls EXCEPT ![i] = Idle]
        ELSE IF ~from.ok
          THEN ret' = Err("sendTransaction", from.error) /\ calls' = [calls EXCEPT ![i] = Idle]
        ELSE ret' = NoRet /\ calls' = [calls EXCEPT ![i].pc = "saveTx"]
  /\ UNCHANGED << sessionVars, autoLockPending, dbWallets, dbSettings, dbTransactions, dbTokens,
                  backup, nextId, sinceLock >>

\* saveTransaction resolved: put('transactions', tx) with id = hash
SendSaveDone(i) ==
  /\ calls[i].pc = "saveTx"
  /\ dbTransactions' = MapPut(dbTransactions, calls[i].tx.hash,
                              [id |-> calls[i].tx.hash, status |-> "pending"])
  /\ calls' = [calls EXCEPT ![i] = Idle]
  /\ ret' = Ok("sendTransaction")
  /\ UNCHANGED << sessionVars, autoLockPending, dbWallets, dbSettings, dbTokens, backup,
                  nextId, sinceLock >>

\* the callback of the 30 s timer: this.privateKeys.delete(chain)
EvictTimeout(t) ==
  /\ t \in DOMAIN timers
  /\ timers[t].kind = "evict"
  /\ timers[t].left = 0
  /\ timers' = MapDel(timers, t)
  /\ privateKeys' = MapDel(privateKeys, timers[t].chain)
  /\ ret' = NoRet
  /\ UNCHANGED << wallet, mnemonic, providers, isLocked, autoLockTimer, autoLockPending,
                  dbWallets, dbSettings, dbTransactions, dbTokens, backup, calls, nextId, sinceLock >>

MinOf(S) == CHOOSE x \in S : \A y \in S : x <= y

\* time passes up to the next timer expiry; a due timer fires first
Tick ==
  /\ DOMAIN timers # {}
  /\ \A t \in DOMAIN timers : timers[t].left > 0
  /\ LET d == MinOf({timers[t].left : t \in DOMAIN timers})
     IN /\ timers' = [t \in DOMAIN timers |-> [timers[t] EXCEPT !.left = @ - d]]
        /\ privateKeys' = [c \in DOMAIN privateKeys |->
                             [privateKeys[c] EXCEPT !.age = MinOf({@ + d, AgeCap})]]
  /\ ret' = NoRet
  /\ UNCHANGED << wallet, mnemonic, providers, isLocked, autoLockTimer, autoLockPending,
                  dbWallets, dbSettings, dbTransactions, dbTokens, backup, calls, nextId, sinceLock >>

----------------------------------------------------------------------------
(* createWallet(password): lines 595-638, importWallet(mnemonic, password): *)
(* lines 643-691.  After the first statements the two bodies are the same   *)
(* code, so their resumptions are the same actions.                         *)

\* ids still to be handed out to the calls that have not built their record
IdsLeft ==
  MaxWallets - (nextId - 1) - Cardinality({j \in Slots : calls[j].pc \in {"seed", "address"}})

\* createWallet and importWallet calls in flight
CreatesInFlight == Cardinality({j \in Slots : calls[j].op \in {"createWallet", "importWallet"}})

CreateWallet(i, password, entropy) ==
  /\ FreeSlot(i)
  /\ IdsLeft > 0
  /\ CreatesInFlight < MaxCreates
  /\ LET g == generated[entropy]
     IN /\ mnemonic' = g.mnemonic
        /\ calls' = [calls EXCEPT ![i] = [Idle EXCEPT !.op = "createWallet", !.pc = "seed",
                                                     !.pw = password, !.gen = g.mnemonic,
                                                     !.seed = mnemonicToSeed(g.mnemonic),
                                                     !.startedLocked = isLocked]]
  /\ ret' = NoRet
  /\ UNCHANGED << wallet, privateKeys, providers, isLocked, autoLockTimer, timers,
                  autoLockPending, dbWallets, dbSettings, dbTransactions, dbTokens, backup, nextId, sinceLock >>

ImportWallet(i, phrase, password) ==
  /\ FreeSlot(i)
  /\ LET validation == validated[phrase]
     IN IF ~validation.valid
          THEN /\ SetSession(clearSensitiveData(Session))
               /\ ret' = Err("importWallet", validation.error)
               /\ UNCHANGED calls
          ELSE /\ IdsLeft > 0
               /\ CreatesInFlight < MaxCreates
               /\ SetSession([Session EXCEPT !.mnemonic = phrase])
               /\ calls' = [calls EXCEPT ![i] = [Idle EXCEPT !.op = "importWallet", !.pc = "seed",
                                                            !.pw = password, !.gen = phrase,
                                                            !.seed = mnemonicToSeed(phrase),
                                                            !.startedLocked = isLocked]]
               /\ ret' = NoRet
  /\ UNCHANGED << autoLockPending, dbWallets, dbSettings, dbTransactions, dbTokens, backup, nextId, sinceLock >>

\* mnemonicToSeed resolved; the loop asks the first chain manager
CreateSeedDone(i) ==
  /\ calls[i].pc = "seed"
  /\ calls' = [calls EXCEPT ![i].pc = "address", ![i].todo = chainOrder,
                            ![i].pend = getAddressFromSeed(chains[Head(chainOrder)], calls[i].seed, wallet)]
  /\ ret' = NoRet
  /\ UNCHANGED << sessionVars, autoLockPending, dbWallets, dbSettings, dbTransactions, dbTokens, backup, nextId, sinceLock >>

\* getAddressFromSeed of the next chain resolved or rejected (a rejection
\* is logged and skipped); after the last chain the record is built and
\* saveWallet is called, which runs up to "await encrypt(...)"
CreateAddressDone(i) ==
  /\ calls[i].pc = "address"
  /\ LET c == calls[i]
         addresses == IF c.pend.ok THEN MapPut(c.addresses, Head(c.todo), c.pend.address)
                      ELSE c.addresses
         allOk == c.allOk /\ c.pend.ok
     IN IF Len(c.todo) > 1
          THEN /\ calls' = [calls EXCEPT ![i].addresses = addresses, ![i].allOk = allOk,
                                         ![i].todo = Tail(c.todo),
                                         ![i].pend = getAddressFromSeed(chains[c.todo[2]], c.seed, wallet)]
               /\ UNCHANGED << wallet, nextId >>
          ELSE /\ wallet' = [id |-> nextId, mnemonic |-> mnemonic, addresses |-> addresses, owner |-> i]
               /\ nextId' = nextId + 1
               /\ calls' = [calls EXCEPT ![i].pc = "save", ![i].addresses = addresses,
                                         ![i].allOk = allOk, ![i].todo = << >>,
                                         ![i].pend = [ok |-> FALSE],
                                         ![i].made = nextId, ![i].data = mnemonic]
  /\ ret' = NoRet
  /\ UNCHANGED << mnemonic, privateKeys, providers, isLocked, autoLockTimer, timers,
                  autoLockPending, dbWallets, dbSettings, dbTransactions, dbTokens, backup, sinceLock >>

\* a record that also keeps the phrase beside its envelope
StoredRecordPlain(id, envelope, addresses) ==
  [id |-> id, encryptedMnemonic |-> envelope, mnemonic |-> envelope.pt, addresses |-> addresses]

\* StorageManager.saveWallet: the record that put() writes
StoredRecord(id, envelope, addresses) ==
  [id |-> id, encryptedMnemonic |-> envelope, addresses |-> addresses]

\* a saveWallet that leaves the caller's object as it was
saveWalletKeepsPhrase(walletData, password) ==
  LET e == encrypt(walletData.mnemonic, password)
  IN IF ~e.ok THEN [ok |-> FALSE, error |-> e.error, walletData |-> walletData]
     ELSE [ok |-> TRUE, id |-> walletData.id, walletData |-> walletData,
           encryptedData |-> StoredRecord(walletData.id, e.envelope, walletData.addresses)]

\* StorageManager.saveWallet(walletData, password): the record it puts and
\* the caller's object as the call leaves it
saveWallet(walletData, password) ==
  LET e == encrypt(walletData.mnemonic, password)
  IN IF ~e.ok THEN [ok |-> FALSE, error |-> e.error, walletData |-> walletData]
     ELSE [ok |-> TRUE, id |-> walletData.id,
           walletData |-> [walletData EXCEPT !.mnemonic = NoPhrase],
           encryptedData |-> StoredRecord(walletData.id, e.envelope, walletData.addresses)]

\* saveWallet resolved or rejected (encrypt, then put, then
\* walletData.mnemonic = null); createWallet goes on with
\* clearSensitiveData() and unlock(password), which runs up to its first await
CreateSaveDone(i) ==
  /\ calls[i].pc = "save"
  /\ LET c == calls[i]
         saved == saveWallet([id |-> c.made, mnemonic |-> c.data, addresses |-> c.addresses], c.pw)
         scrubbed == IF wallet.id = c.made /\ wallet.owner = i
                     THEN [Session EXCEPT !.wallet = [@ EXCEPT !.mnemonic = saved.walletData.mnemonic]]
                     ELSE Session
     IN IF ~saved.ok
          THEN /\ SetSession(clearSensitiveData(Session))
               /\ calls' = [calls EXCEPT ![i] = Idle]
               /\ ret' = Err(c.op, saved.error)
               /\ UNCHANGED dbWallets
          ELSE /\ dbWallets' = MapPut(dbWallets, saved.id, saved.encryptedData)
               /\ SetSession(clearSensitiveData(scrubbed))
               /\ calls' = [calls EXCEPT ![i].pc = "info", ![i].data = saved.walletData.mnemonic]
               /\ ret' = NoRet
  /\ UNCHANGED << autoLockPending, dbSettings, dbTransactions, dbTokens, backup, nextId, sinceLock >>

----------------------------------------------------------------------------
(* clearWallet(): lines 1046-1050, with StorageManager.clearAll *)

\* the four object stores of the database
AllStores == [wallets |-> dbWallets, transactions |-> dbTransactions,
              tokens |-> dbTokens, settings |-> dbSettings]

\* a clear that empties every object store
clearEveryStore(stores, storeName) == [n \in DOMAIN stores |-> EmptyMap]

\* StorageManager.clear(storeName): objectStore(storeName).clear()
clear(stores, storeName) == [stores EXCEPT ![storeName] = EmptyMap]

ClearWallet(i) ==
  /\ FreeSlot(i)
  /\ SetSession(lock(Session))
  /\ calls' = [calls EXCEPT ![i] = [Idle EXCEPT !.op = "clearWallet", !.pc = "clearWallets"]]
  /\ ret' = NoRet
  /\ sinceLock' = TRUE
  /\ UNCHANGED << autoLockPending, dbWallets, dbSettings, dbTransactions, dbTokens, backup, nextId >>

\* clear('wallets') resolved
ClearWalletsDone(i) ==
  /\ calls[i].op = "clearWallet"
  /\ calls[i].pc = "clearWallets"
  /\ LET after == clear(AllStores, "wallets")
     IN /\ dbWallets' = after.wallets
        /\ dbTransactions' = after.transactions
        /\ dbTokens' = after.tokens
        /\ dbSettings' = after.settings
  /\ calls' = [calls EXCEPT ![i].pc = "clearRest"]
  /\ ret' = NoRet
  /\ UNCHANGED << sessionVars, autoLockPending, backup, nextId, sinceLock >>

\* the remaining clears resolved; clearWallet sets this.wallet = null
ClearWalletDone(i) ==
  /\ calls[i].pc = "clearRest"
  /\ wallet' = NoWallet
  /\ calls' = [calls EXCEPT ![i] = Idle]
  /\ LET after == clear(clear(AllStores, "transactions"), "tokens")
     IN /\ dbWallets' = after.wallets
        /\ dbTransactions' = after.transactions
        /\ dbTokens' = after.tokens
        /\ dbSettings' = after.settings
  /\ ret' = Ok("clearWallet")
  /\ UNCHANGED << mnemonic, privateKeys, providers, isLocked, autoLockTimer, timers,
                  autoLockPending, backup, nextId, sinceLock >>

----------------------------------------------------------------------------
(* The other collections of the store: saveTransaction, saveToken *)

\* addresses of the tokens that callers save
TokenInputs == {"tok1"}

\* exportBackup and importBackup calls in flight
BackupsInFlight == Cardinality({i \in Slots : calls[i].op \in {"exportBackup", "importBackup"}})

\* StorageManager.saveTransaction(txData): put('transactions', tx)
SaveTransaction(id) ==
  /\ dbTransactions' = MapPut(dbTransactions, id, [id |-> id, status |-> "pending"])
  /\ ret' = Ok("saveTransaction")
  /\ UNCHANGED << sessionVars, autoLockPending, dbWallets, dbSettings, dbTokens, backup,
                  calls, nextId, sinceLock >>

\* StorageManager.saveToken(tokenData): put('tokens', token)
SaveToken(address) ==
  /\ dbTokens' = MapPut(dbTokens, address, [address |-> address])
  /\ ret' = Ok("saveToken")
  /\ UNCHANGED << sessionVars, autoLockPending, dbWallets, dbSettings, dbTransactions, backup,
                  calls, nextId, sinceLock >>

----------------------------------------------------------------------------
(* exportBackup(password): lines 1027-1033, with StorageManager.exportWallet *)
(* (lines 375-409)                                                           *)

\* AppConfig.version
AppVersion == "1.0.0"

\* JSON.stringify of a backup document and JSON.parse of that text.  A
\* string is a sequence of pieces; the text of a document is one piece.
\* The documents hold strings, numbers and plain objects only, which the
\* pair reproduces.
JSONstringify(doc) == << doc >>

JSONparse(text) == text[1]

ExportBackup(i, password) ==
  /\ FreeSlot(i)
  /\ BackupsInFlight < MaxBackups
  /\ IF isLocked
       THEN ret' = Err("exportBackup", "WalletLocked") /\ UNCHANGED calls
       ELSE /\ calls' = [calls EXCEPT ![i] = [Idle EXCEPT !.op = "exportBackup", !.pc = "readWallets",
                                                          !.pw = password]]
            /\ ret' = NoRet
  /\ UNCHANGED << sessionVars, autoLockPending, dbWallets, dbSettings, dbTransactions, dbTokens,
                  backup, nextId, sinceLock >>

\* one getAll of exportWallet resolved: wallets, settings, transactions,
\* tokens in this order; after the last one encrypt(...) is called
ExportReadDone(i) ==
  /\ calls[i].op = "exportBackup"
  /\ calls[i].pc \in {"readWallets", "readSettings", "readTransactions", "readTokens"}
  /\ LET c == calls[i]
     IN calls' = [calls EXCEPT ![i] =
          IF c.pc = "readWallets"
            THEN [c EXCEPT !.pc = "readSettings",
                           !.doc = [version |-> AppVersion, wallets |-> dbWallets]]
          ELSE IF c.pc = "readSettings"
            THEN [c EXCEPT !.pc = "readTransactions",
                           !.doc = [version |-> AppVersion, wallets |-> c.doc.wallets,
                                    settings |-> dbSettings]]
          ELSE IF c.pc = "readTransactions"
            THEN [c EXCEPT !.pc = "readTokens",
                           !.doc = [version |-> AppVersion, wallets |-> c.doc.wallets,
                                    settings |-> c.doc.settings, transactions |-> dbTransactions]]
          ELSE [c EXCEPT !.pc = "encrypt",
                         !.doc = [version |-> AppVersion, wallets |-> c.doc.wallets,
                                  settings |-> c.doc.settings, transactions |-> c.doc.transactions,
                                  tokens |-> dbTokens]]]
  /\ ret' = NoRet
  /\ UNCHANGED << sessionVars, autoLockPending, dbWallets, dbSettings, dbTransactions, dbTokens,
                  backup, nextId, sinceLock >>

\* encrypt resolved or rejected; the caller keeps the returned file
ExportEncryptDone(i) ==
  /\ calls[i].op = "exportBackup"
  /\ calls[i].pc = "encrypt"
  /\ LET e == encrypt(JSONstringify(calls[i].doc), calls[i].pw)
     IN IF ~e.ok
          THEN ret' = Err("exportBackup", e.error) /\ UNCHANGED backup
          ELSE /\ backup' = [format |-> "eterna-wallet-backup", data |-> e.envelope,
                             version |-> AppVersion]
               /\ ret' = Ok("exportBackup")
  /\ calls' = [calls EXCEPT ![i] = Idle]
  /\ UNCHANGED << sessionVars, autoLockPending, dbWallets, dbSettings, dbTransactions, dbTokens,
                  nextId, sinceLock >>

----------------------------------------------------------------------------
(* importBackup(backupData, password): lines 1038-1041, with               *)
(* StorageManager.importWallet (lines 414-463) and clearAll (354-370)      *)

\* a file whose envelope was damaged: it authenticates under no password
Tamper(file) == [file EXCEPT !.data.pw = Undefined]

\* a file sealed under "pw1" whose document has no wallets member
ForeignBackup ==
  [format |-> "eterna-wallet-backup",
   data |-> [pt |-> JSONstringify([version |-> AppVersion]), pw |-> "pw1"],
   version |-> AppVersion]

\* the files a caller passes to importBackup
BackupInputs ==
  IF backup = NoBackup THEN {ForeignBackup}
  ELSE {backup, Tamper(backup), ForeignBackup}

\* the collections that importWallet clears and refills
Stores == [wallets |-> dbWallets, transactions |-> dbTransactions, tokens |-> dbTokens]

RECURSIVE SetToSeq(_)
SetToSeq(S) == IF S = {} THEN << >>
               ELSE LET x == CHOOSE x \in S : TRUE IN << x >> \o SetToSeq(S \ {x})

\* the records of one member of the document, each with its object store
PutList(doc, member) ==
  IF member \notin DOMAIN doc THEN << >>
  ELSE LET keys == SetToSeq(DOMAIN doc[member])
       IN [k \in 1..Len(keys) |-> [store |-> member, key |-> keys[k], record |-> doc[member][keys[k]]]]

\* an import that writes the wallet records only
ImportPutsWalletsOnly(doc) == PutList(doc, "wallets")

\* the puts of importWallet in the order of its four loops
ImportPuts(doc) ==
  PutList(doc, "wallets") \o PutList(doc, "settings")
    \o PutList(doc, "transactions") \o PutList(doc, "tokens")

\* history kept with an importBackup call: no other call has written to
\* the three collections since this call's previous step
StillQuiet(c) == c.quiet /\ c.seen = Stores

ImportBackup(i, file, password) ==
  /\ FreeSlot(i)
  /\ BackupsInFlight < MaxBackups
  /\ calls' = [calls EXCEPT ![i] = [Idle EXCEPT !.op = "importBackup", !.pc = "decrypt",
                                                 !.pw = password, !.file = file,
                                                 !.before = Stores, !.seen = Stores]]
  /\ ret' = NoRet
  /\ UNCHANGED << sessionVars, autoLockPending, dbWallets, dbSettings, dbTransactions, dbTokens,
                  backup, nextId, sinceLock >>

\* decrypt resolved or rejected; JSON.parse and the format check follow,
\* then clearAll() runs up to its first await
ImportDecryptDone(i) ==
  /\ calls[i].op = "importBackup"
  /\ calls[i].pc = "decrypt"
  /\ LET c == calls[i]
         d == decrypt(c.file.data, c.pw)
     IN IF ~d.ok
          THEN /\ calls' = [calls EXCEPT ![i] = Idle]
               /\ ret' = Err("importBackup", d.error)
        ELSE IF "wallets" \notin DOMAIN JSONparse(d.result)
          THEN /\ calls' = [calls EXCEPT ![i] = Idle]
               /\ ret' = Err("importBackup", "InvalidBackupFormat")
        ELSE /\ calls' = [calls EXCEPT ![i].pc = "clearWallets", ![i].doc = JSONparse(d.result),
                                       ![i].quiet = StillQuiet(c)]
             /\ ret' = NoRet
  /\ UNCHANGED << sessionVars, autoLockPending, dbWallets, dbSettings, dbTransactions, dbTokens,
                  backup, nextId, sinceLock >>

\* one clear of clearAll resolved: wallets, transactions, tokens in this
\* order (settings are kept); after the last one the first put is issued
ImportClearDone(i) ==
  /\ calls[i].op = "importBackup"
  /\ calls[i].pc \in {"clearWallets", "clearTransactions", "clearTokens"}
  /\ LET c == calls[i]
         all == IF c.pc = "clearWallets" THEN clear(AllStores, "wallets")
                ELSE IF c.pc = "clearTransactions" THEN clear(AllStores, "transactions")
                ELSE clear(AllStores, "tokens")
         after == [wallets |-> all.wallets, transactions |-> all.transactions, tokens |-> all.tokens]
         puts == ImportPuts(c.doc)
     IN /\ dbWallets' = after.wallets
        /\ dbTransactions' = after.transactions
        /\ dbTokens' = after.tokens
        /\ dbSettings' = all.settings
        /\ calls' = [calls EXCEPT ![i] =
             [c EXCEPT !.pc = IF c.pc = "clearWallets" THEN "clearTransactions"
                              ELSE IF c.pc = "clearTransactions" THEN "clearTokens"
                              ELSE IF Len(puts) > 0 THEN "put" ELSE "info",
                       !.todo = IF c.pc = "clearTokens" THEN puts ELSE << >>,
                       !.quiet = StillQuiet(c), !.seen = after]]
  /\ ret' = NoRet
  /\ UNCHANGED << sessionVars, autoLockPending, backup, nextId, sinceLock >>

\* put(store, record) of importWallet resolved (ok) or rejected; after the
\* last put importWallet returns and importBackup calls unlock(password),
\* which runs up to its first await
ImportPutDone(i, ok) ==
  /\ calls[i].op = "importBackup"
  /\ calls[i].pc = "put"
  /\ LET c == calls[i]
         p == Head(c.todo)
         after == IF p.store = "settings" THEN Stores
                  ELSE [Stores EXCEPT ![p.store] = MapPut(@, p.key, p.record)]
     IN IF ~ok
          THEN /\ calls' = [calls EXCEPT ![i] = Idle]
               /\ ret' = Err("importBackup", "StorageUnavailable")
               /\ UNCHANGED << dbWallets, dbSettings, dbTransactions, dbTokens >>
          ELSE /\ dbWallets' = after.wallets
               /\ dbTransactions' = after.transactions
               /\ dbTokens' = after.tokens
               /\ dbSettings' = IF p.store = "settings" THEN MapPut(dbSettings, p.key, p.record)
                                ELSE dbSettings
               /\ calls' = [calls EXCEPT ![i] =
                    [c EXCEPT !.pc = IF Len(c.todo) > 1 THEN "put" ELSE "info",
                              !.todo = Tail(c.todo),
                              !.quiet = StillQuiet(c), !.seen = after]]
               /\ ret' = NoRet
  /\ UNCHANGED << sessionVars, autoLockPending, backup, nextId, sinceLock >>

----------------------------------------------------------------------------
(* Cipher Engine at the level of bytes: src/unnamed/part_002               *)
(*                                                                          *)
(* A string is the sequence of its code points, a buffer the sequence of   *)
(* its bytes.  PBKDF2 and AES-GCM belong to the platform; they are stood   *)
(* in for by arithmetic with the same shape: the key is a function of      *)
(* password and salt, the ciphertext is as long as the data, and a tag of  *)
(* tagSize bytes binds key, iv and ciphertext.                             *)

saltSize == 16
ivSize == 12
tagSize == 16

\* a value passed to encrypt or returned by decrypt
Str(units) == [type |-> "string", units |-> units]

Bytes(units) == [type |-> "Uint8Array", units |-> units]

NoValue == [type |-> "undefined", units |-> << >>]

RECURSIVE SumSeq(_)
SumSeq(b) == IF Len(b) = 0 THEN 0 ELSE Head(b) + SumSeq(Tail(b))

\* the sum of position times byte
RECURSIVE WeightedSum(_)
WeightedSum(b) == IF Len(b) = 0 THEN 0 ELSE Len(b) * b[Len(b)] + WeightedSum(SubSeq(b, 1, Len(b) - 1))

\* the UTF-8 bytes of one code point; a lone surrogate becomes U+FFFD
Utf8(cp) ==
  IF cp < 128 THEN << cp >>
  ELSE IF cp < 2048 THEN << 192 + (cp \div 64), 128 + (cp % 64) >>
  ELSE IF cp \in 55296..57343 THEN << 239, 191, 189 >>
  ELSE IF cp < 65536 THEN << 224 + (cp \div 4096), 128 + ((cp \div 64) % 64), 128 + (cp % 64) >>
  ELSE << 240 + (cp \div 262144), 128 + ((cp \div 4096) % 64), 128 + ((cp \div 64) % 64), 128 + (cp % 64) >>

\* new TextEncoder().encode(string)
TextEncode(units) == Flatten([k \in 1..Len(units) |-> Utf8(units[k])])

\* the UTF-8 decoder: an ill-formed sequence yields U+FFFD for its longest
\* well-formed prefix and decoding resumes behind it
RECURSIVE Utf8Decode(_)
Utf8Decode(b) ==
  IF Len(b) = 0 THEN << >>
  ELSE LET b1 == b[1]
           In(k, lo, hi) == k <= Len(b) /\ b[k] >= lo /\ b[k] <= hi
           Rest(n) == Utf8Decode(SubSeq(b, n + 1, Len(b)))
           lo2 == IF b1 = 224 THEN 160 ELSE IF b1 = 240 THEN 144 ELSE 128
           hi2 == IF b1 = 237 THEN 159 ELSE IF b1 = 244 THEN 143 ELSE 191
       IN IF b1 < 128 THEN << b1 >> \o Rest(1)
          ELSE IF b1 >= 194 /\ b1 <= 223
            THEN IF In(2, 128, 191) THEN << (b1 - 192) * 64 + (b[2] - 128) >> \o Rest(2)
                 ELSE << 65533 >> \o Rest(1)
          ELSE IF b1 >= 224 /\ b1 <= 239
            THEN IF ~In(2, lo2, hi2) THEN << 65533 >> \o Rest(1)
                 ELSE IF ~In(3, 128, 191) THEN << 65533 >> \o Rest(2)
                 ELSE << (b1 - 224) * 4096 + (b[2] - 128) * 64 + (b[3] - 128) >> \o Rest(3)
          ELSE IF b1 >= 240 /\ b1 <= 244
            THEN IF ~In(2, lo2, hi2) THEN << 65533 >> \o Rest(1)
                 ELSE IF ~In(3, 128, 191) THEN << 65533 >> \o Rest(2)
                 ELSE IF ~In(4, 128, 191) THEN << 65533 >> \o Rest(3)
                 ELSE << (b1 - 240) * 262144 + (b[2] - 128) * 4096 + (b[3] - 128) * 64 + (b[4] - 128) >>
                        \o Rest(4)
          ELSE << 65533 >> \o Rest(1)

\* new TextDecoder().decode(buffer): UTF-8, not fatal, and a byte order
\* mark at the start is dropped
TextDecode(b) ==
  LET u == Utf8Decode(b)
  IN IF Len(u) > 0 /\ u[1] = 65279 THEN Tail(u) ELSE u

\* arrayBufferToBase64: btoa of the binary string of the bytes.  A base64
\* text is kept as the bytes it stands for, or as a text that atob rejects.
arrayBufferToBase64(b) == [valid |-> TRUE, bytes |-> b]

\* base64ToArrayBuffer: atob throws on a text that is not base64
base64ToArrayBuffer(text) ==
  IF text.valid THEN [ok |-> TRUE, bytes |-> text.bytes]
  ELSE [ok |-> FALSE, cause |-> "InvalidCharacterError"]

\* deriveKey(password, salt): PBKDF2 of the encoded password under the salt
deriveKey(password, salt) ==
  IF Len(password) = 0 THEN [ok |-> FALSE, cause |-> "Password and salt required"]
  ELSE [ok |-> TRUE, key |-> (3 * WeightedSum(TextEncode(password)) + 5 * WeightedSum(salt)) % 65536]

\* the tag that binds key, iv and ciphertext
Tag(key, iv, ct) ==
  [j \in 1..tagSize |-> (key + 7 * WeightedSum(iv) + 11 * WeightedSum(ct) + j) % 256]

\* crypto.subtle.encrypt({name: 'AES-GCM', iv}, key, data)
subtleEncrypt(key, iv, data) ==
  LET ct == [k \in 1..Len(data) |-> (data[k] + key + SumSeq(iv) + k) % 256]
  IN ct \o Tag(key, iv, ct)

\* crypto.subtle.decrypt({name: 'AES-GCM', iv}, key, data): rejects with an
\* OperationError unless the tag matches
subtleDecrypt(key, iv, data) ==
  IF Len(data) < tagSize \/ Len(iv) = 0 THEN [ok |-> FALSE, cause |-> "OperationError"]
  ELSE LET ct == SubSeq(data, 1, Len(data) - tagSize)
           tag == SubSeq(data, Len(data) - tagSize + 1, Len(data))
       IN IF tag # Tag(key, iv, ct) THEN [ok |-> FALSE, cause |-> "OperationError"]
          ELSE [ok |-> TRUE,
                bytes |-> [k \in 1..Len(ct) |-> (ct[k] + 256 * 260 - key - SumSeq(iv) - k) % 256]]

\* encrypt(data, password) with the salt and iv that generateSecureRandom
\* returned; after |-> the caller's value when the call has settled
\* (zeroBuffer clears the buffer of a Uint8Array argument)
EncryptionEncrypt(data, password, salt, iv) ==
  LET k == deriveKey(password, salt)
      dataBuffer == IF data.type = "string" THEN TextEncode(data.units) ELSE data.units
  IN IF ~k.ok THEN [ok |-> FALSE, error |-> "EncryptionFailed", after |-> data]
     ELSE [ok |-> TRUE,
           base64 |-> arrayBufferToBase64(salt \o iv \o subtleEncrypt(k.key, iv, dataBuffer)),
           after |-> IF data.type = "string" THEN data
                     ELSE Bytes([n \in 1..Len(data.units) |-> 0])]

\* the body of the try block of decrypt
decryptTry(encryptedData, password) ==
  LET buf == base64ToArrayBuffer(encryptedData)
  IN IF ~buf.ok THEN [ok |-> FALSE, error |-> buf.cause]
     ELSE LET salt == Slice(buf.bytes, 0, saltSize)
              iv == Slice(buf.bytes, saltSize, saltSize + ivSize)
              ciphertext == Slice(buf.bytes, saltSize + ivSize, Len(buf.bytes))
              k == deriveKey(password, salt)
          IN IF ~k.ok THEN [ok |-> FALSE, error |-> k.cause]
             ELSE LET d == subtleDecrypt(k.key, iv, ciphertext)
                  IN IF ~d.ok THEN [ok |-> FALSE, error |-> d.cause]
                     ELSE [ok |-> TRUE, result |-> Str(TextDecode(d.bytes))]

\* a decrypt whose catch block rethrows the error it caught
decryptRethrow(encryptedData, password) == decryptTry(encryptedData, password)

\* decrypt(encryptedData, password): whatever the try block throws, the
\* catch block throws 'Failed to decrypt data - wrong password?'
EncryptionDecrypt(encryptedData, password) ==
  LET t == decryptTry(encryptedData, password)
  IN IF t.ok THEN t ELSE [ok |-> FALSE, error |-> "DecryptionFailed"]

\* SecurityConfig.zeroBuffer(buffer): overwrites an ArrayBuffer (or an Array)
\* and does nothing to a value of another type, a Uint8Array among them
zeroBuffer(buffer) ==
  IF buffer.type = "ArrayBuffer" THEN [buffer EXCEPT !.units = [n \in 1..Len(buffer.units) |-> 0]]
  ELSE buffer

\* deriveKey(password, salt): the buffer of the encoded password when the
\* call returns or throws (none when it throws before encoding)
deriveKeyBuffers(password) ==
  IF Len(password) = 0 THEN << >>
  ELSE << zeroBuffer([type |-> "Uint8Array", units |-> TextEncode(password)]) >>

\* encrypt(data, password): the buffers of the encoded password and of the
\* plaintext bytes when the call returns or throws
encryptBuffers(data, password) ==
  deriveKeyBuffers(password) \o
    (IF Len(password) = 0 THEN << >>
     ELSE IF data.type = "string"
       THEN << zeroBuffer([type |-> "Uint8Array", units |-> TextEncode(data.units)]) >>
     ELSE << zeroBuffer([type |-> "ArrayBuffer", units |-> data.units]) >>)

\* decrypt(encryptedData, password): the buffers of the encoded password
\* and of the decrypted bytes when the call returns or throws
decryptBuffers(encryptedData, password) ==
  LET buf == base64ToArrayBuffer(encryptedData)
  IN IF ~buf.ok THEN << >>
     ELSE LET salt == Slice(buf.bytes, 0, saltSize)
              iv == Slice(buf.bytes, saltSize, saltSize + ivSize)
              ciphertext == Slice(buf.bytes, saltSize + ivSize, Len(buf.bytes))
              k == deriveKey(password, salt)
          IN IF ~k.ok THEN deriveKeyBuffers(password)
             ELSE LET d == subtleDecrypt(k.key, iv, ciphertext)
                  IN deriveKeyBuffers(password) \o
                       (IF ~d.ok THEN << >>
                        ELSE << zeroBuffer([type |-> "ArrayBuffer", units |-> d.bytes]) >>)

\* the payloads, passwords, salts and ivs of the calls
Plaintexts ==
  { Str(<< >>), Str(<< 65 >>), Str(<< 233 >>), Str(<< 65279, 65 >>),
    Bytes(<< >>), Bytes(<< 65 >>), Bytes(<< 255 >>), Bytes(<< 195, 169 >>) }

CipherPasswords == { << >>, << 112, 49 >>, << 112, 50 >> }

Salts == { [k \in 1..saltSize |-> 1], [k \in 1..saltSize |-> 2] }

Ivs == { [k \in 1..ivSize |-> 7] }

\* what may happen to a stored envelope before it is decrypted
Damages == {"none", "truncated", "cut", "flipCiphertext", "flipTag", "notBase64"}

Damage(kind, text) ==
  LET b == text.bytes
      n == Len(b)
      Flip(k) == [j \in 1..n |-> IF j = k THEN (b[j] + 1) % 256 ELSE b[j]]
  IN IF kind = "truncated" THEN [valid |-> TRUE, bytes |-> SubSeq(b, 1, n - 1)]
     ELSE IF kind = "cut" THEN [valid |-> TRUE, bytes |-> SubSeq(b, 1, saltSize + 4)]
     ELSE IF kind = "flipCiphertext" THEN [valid |-> TRUE, bytes |-> Flip(saltSize + ivSize + 1)]
     ELSE IF kind = "flipTag" THEN [valid |-> TRUE, bytes |-> Flip(n)]
     ELSE IF kind = "notBase64" THEN [valid |-> FALSE, bytes |-> << >>]
     ELSE text

\* Encryption.encrypt for each payload, password, salt and iv
encrypted ==
  [data \in Plaintexts, password \in CipherPasswords, salt \in Salts, iv \in Ivs |->
     EncryptionEncrypt(data, password, salt, iv)]

\* a caller encrypts a payload
EngineEncrypt(data, password, salt, iv) ==
  /\ LET e == encrypted[data, password, salt, iv]
     IN ret' = [op |-> "encrypt", ok |-> e.ok, err |-> IF e.ok THEN "" ELSE e.error,
                data |-> data, pw |-> password, after |-> e.after,
                buffers |-> encryptBuffers(data, password),
                value |-> IF e.ok THEN e.base64 ELSE [valid |-> FALSE, bytes |-> << >>]]
  /\ UNCHANGED << sessionVars, autoLockPending, dbWallets, dbSettings, dbTransactions, dbTokens,
                  backup, calls, nextId, sinceLock >>

\* a caller decrypts the envelope it was given, intact or damaged
EngineDecrypt(kind, password) ==
  /\ ret.op = "encrypt"
  /\ ret.ok
  /\ LET d == EncryptionDecrypt(Damage(kind, ret.value), password)
     IN ret' = [op |-> "decrypt", ok |-> d.ok, err |-> IF d.ok THEN "" ELSE d.error,
                data |-> ret.data, sealedWith |-> ret.pw, pw |-> password, damage |-> kind,
                buffers |-> decryptBuffers(Damage(kind, ret.value), password),
                value |-> IF d.ok THEN d.result ELSE NoValue]
  /\ UNCHANGED << sessionVars, autoLockPending, dbWallets, dbSettings, dbTransactions, dbTokens,
                  backup, calls, nextId, sinceLock >>

----------------------------------------------------------------------------
(* Calls of the Mnemonic Engine *)

\* generateMnemonic(wordCount): the number of entropy bytes it asks for
entropyBytes(wc) == (wc * 11 - (wc \div 3)) \div 8

\* values that generateSecureRandom(entropyBytes) may return
EntropyInputs(wc) ==
  { [k \in 1..entropyBytes(wc) |-> IF k = entropyBytes(wc) THEN last ELSE fill] :
      fill \in {0, 1, 255}, last \in {0, 3, 128} }

\* word counts that callers pass to generateMnemonic
WordCountInputs == {12, 15, 18, 21, 24, 13, 0, 11, 25}

\* Mnemonic.generateMnemonic(wc) for each word count and entropy value
generatedFor == [wc \in WordCountInputs |-> [e \in EntropyInputs(wc) |-> generateMnemonic(wc, e)]]

EngineGenerate(wc, entropy) ==
  /\ LET g == generatedFor[wc][entropy]
     IN ret' = [op |-> "generateMnemonic", ok |-> g.ok, err |-> IF g.ok THEN "" ELSE g.error,
                wc |-> wc, drawn |-> g.drawn, value |-> IF g.ok THEN g.mnemonic ELSE NoPhrase]
  /\ UNCHANGED << sessionVars, autoLockPending, dbWallets, dbSettings, dbTransactions, dbTokens,
                  backup, calls, nextId, sinceLock >>

\* validateMnemonic on the phrase that generateMnemonic returned
EngineValidate ==
  /\ ret.op = "generateMnemonic"
  /\ ret.ok
  /\ LET v == validateMnemonic(ret.value)
     IN ret' = [op |-> "validateMnemonic", ok |-> TRUE, err |-> "", wc |-> ret.wc,
                phrase |-> ret.value, valid |-> v.valid, error |-> v.error]
  /\ UNCHANGED << sessionVars, autoLockPending, dbWallets, dbSettings, dbTransactions, dbTokens,
                  backup, calls, nextId, sinceLock >>


\* crypto.subtle.digest('SHA-256', entropy): the first byte of the digest
\* of the two entropy values that the phrases below carry
DigestFirstByte ==
  [e \in { [k \in 1..16 |-> 0], [k \in 1..16 |-> IF k = 16 THEN 1 ELSE 0] } |->
     IF e[16] = 0 THEN 55 ELSE 124]

\* phrases that callers pass to validateMnemonic, with what is wrong with
\* each; first.."last" stands for eleven times the first word and the last
TwelveWords(first, last) == [k \in 1..12 |-> IF k = 12 THEN last ELSE first]

PhraseCases ==
  { [kind |-> "good", phrase |-> TwelveWords("abandon", "about")],
    [kind |-> "good", phrase |-> TwelveWords("abandon", "actual")],
    [kind |-> "badChecksum", phrase |-> TwelveWords("abandon", "abandon")],
    [kind |-> "badChecksum", phrase |-> TwelveWords("abandon", "ability")],
    [kind |-> "badChecksum", phrase |-> TwelveWords("abandon", "acoustic")],
    [kind |-> "unknownWord", phrase |-> TwelveWords("abandon", "badword")],
    [kind |-> "wrongCase", phrase |-> TwelveWords("abandon", "About")],
    [kind |-> "wrongCount", phrase |-> << "abandon", "ability", "able" >>],
    [kind |-> "wrongCount", phrase |-> << "" >>],
    [kind |-> "notAString", phrase |-> NoPhrase] }

\* validateMnemonic on a phrase that a caller passes
EngineValidateInput(case) ==
  /\ LET v == validateMnemonic(case.phrase)
     IN ret' = [op |-> "validateInput", ok |-> TRUE, err |-> "", kind |-> case.kind,
                phrase |-> case.phrase, valid |-> v.valid, error |-> v.error]
  /\ UNCHANGED << sessionVars, autoLockPending, dbWallets, dbSettings, dbTransactions, dbTokens,
                  backup, calls, nextId, sinceLock >>

----------------------------------------------------------------------------

Next ==
  \/ \E i \in Slots, password \in Passwords : Unlock(i, password)
  \/ \E i \in Slots : UnlockInfoDone(i)
  \/ \E i \in Slots : UnlockLoadDone(i)
  \/ \E i \in Slots : UnlockProviderDone(i)
  \/ Lock
  \/ StartAutoLockDone
  \/ ResetAutoLock
  \/ \E t \in 1..MaxTimers : AutoLockTimeout(t)
  \/ \E value \in DelaySettings : SaveSetting(value)
  \/ \E chain \in ChainInputs : GetAddress(chain)
  \/ \E i \in Slots, chain \in ChainInputs : GetPrivateKey(i, chain)
  \/ \E i \in Slots : GetPrivateKeyDone(i)
  \/ \E t \in 1..MaxTimers : EvictTimeout(t)
  \/ \E i \in Slots, password \in Passwords, entropy \in Entropies : CreateWallet(i, password, entropy)
  \/ \E i \in Slots, phrase \in ImportInputs, password \in Passwords : ImportWallet(i, phrase, password)
  \/ \E i \in Slots : CreateSeedDone(i)
  \/ \E i \in Slots : CreateAddressDone(i)
  \/ \E i \in Slots : CreateSaveDone(i)
  \/ \E i \in Slots : ClearWallet(i)
  \/ \E i \in Slots : ClearWalletsDone(i)
  \/ \E i \in Slots : ClearWalletDone(i)
  \/ \E chain \in ChainInputs : GetBalance(chain)
  \/ \E id \in TxInputs : SaveTransaction(id)
  \/ \E address \in TokenInputs : SaveToken(address)
  \/ \E i \in Slots, password \in Passwords : ExportBackup(i, password)
  \/ \E i \in Slots : ExportReadDone(i)
  \/ \E i \in Slots : ExportEncryptDone(i)
  \/ \E i \in Slots, file \in BackupInputs, password \in Passwords : ImportBackup(i, file, password)
  \/ \E i \in Slots : ImportDecryptDone(i)
  \/ \E i \in Slots : ImportClearDone(i)
  \/ \E i \in Slots, ok \in BOOLEAN : ImportPutDone(i, ok)
  \/ \E data \in Plaintexts, password \in CipherPasswords, salt \in Salts, iv \in Ivs :
       EngineEncrypt(data, password, salt, iv)
  \/ \E kind \in Damages, password \in CipherPasswords : EngineDecrypt(kind, password)
  \/ \E wc \in WordCountInputs : \E entropy \in EntropyInputs(wc) : EngineGenerate(wc, entropy)
  \/ EngineValidate
  \/ \E case \in PhraseCases : EngineValidateInput(case)
  \/ \E i \in Slots, chain \in ChainInputs, transaction \in TxObjects : SendTransaction(i, chain, transaction)
  \/ \E i \in Slots : SendKeyDone(i)
  \/ \E i \in Slots, sent \in BOOLEAN : SendBroadcastDone(i, sent)
  \/ \E i \in Slots : SendSaveDone(i)
  \/ Tick

Spec == Init /\ [][Next]_vars

----------------------------------------------------------------------------
(* The state graph of Spec is too large to explore exhaustively.  The two  *)
(* specifications below each take the operations of one concern.           *)

\* the record that createWallet persists on a device whose store is empty
FirstRecord ==
  LET phrase == [k \in 1..12 |-> IF k = 12 THEN "about" ELSE "abandon"]
  IN StoredRecord(1, encrypt(phrase, "pw1").envelope,
                  [c \in {ch \in DOMAIN chains : getAddressFromSeed(chains[ch], mnemonicToSeed(phrase), NoWallet).ok}
                     |-> getAddressFromSeed(chains[c], mnemonicToSeed(phrase), NoWallet).address])

\* a page load on a device where createWallet ran in an earlier session
InitStored ==
  /\ wallet = NoWallet
  /\ mnemonic = NoPhrase
  /\ privateKeys = EmptyMap
  /\ providers = {}
  /\ isLocked = TRUE
  /\ autoLockTimer = NoTimer
  /\ timers = EmptyMap
  /\ autoLockPending = 0
  /\ dbWallets = [id \in {1} |-> FirstRecord]
  /\ dbSettings = EmptyMap
  /\ dbTransactions = EmptyMap
  /\ dbTokens = EmptyMap
  /\ backup = NoBackup
  /\ calls = [i \in Slots |-> Idle]
  /\ nextId = 2
  /\ ret = NoRet
  /\ sinceLock = FALSE

\* the session of an existing wallet: unlock, lock, timers, keys
NextSession ==
  \/ \E i \in Slots, password \in Passwords : Unlock(i, password)
  \/ \E i \in Slots : UnlockInfoDone(i)
  \/ \E i \in Slots : UnlockLoadDone(i)
  \/ \E i \in Slots : UnlockProviderDone(i)
  \/ Lock
  \/ StartAutoLockDone
  \/ ResetAutoLock
  \/ \E t \in 1..MaxTimers : AutoLockTimeout(t)
  \/ \E value \in DelaySettings : SaveSetting(value)
  \/ \E chain \in ChainInputs : GetAddress(chain)
  \/ \E i \in Slots, chain \in ChainInputs : GetPrivateKey(i, chain)
  \/ \E i \in Slots : GetPrivateKeyDone(i)
  \/ \E t \in 1..MaxTimers : EvictTimeout(t)
  \/ Tick

SpecSession == InitStored /\ [][NextSession]_vars

\* a new device on which the settings screen has stored autoLockDelay = 0,
\* so that startAutoLock arms no timer
InitNoAutoLock ==
  /\ wallet = NoWallet
  /\ mnemonic = NoPhrase
  /\ privateKeys = EmptyMap
  /\ providers = {}
  /\ isLocked = TRUE
  /\ autoLockTimer = NoTimer
  /\ timers = EmptyMap
  /\ autoLockPending = 0
  /\ dbWallets = EmptyMap
  /\ dbSettings = [k \in {"autoLockDelay"} |-> 0]
  /\ dbTransactions = EmptyMap
  /\ dbTokens = EmptyMap
  /\ backup = NoBackup
  /\ calls = [i \in Slots |-> Idle]
  /\ nextId = 1
  /\ ret = NoRet
  /\ sinceLock = FALSE

\* the life of the wallet records: create, import, clear, unlock, lock
NextWallets ==
  \/ \E i \in Slots, password \in Passwords : Unlock(i, password)
  \/ \E i \in Slots : UnlockInfoDone(i)
  \/ \E i \in Slots : UnlockLoadDone(i)
  \/ \E i \in Slots : UnlockProviderDone(i)
  \/ Lock
  \/ StartAutoLockDone
  \/ \E chain \in ChainInputs : GetAddress(chain)
  \/ \E i \in Slots, password \in Passwords, entropy \in Entropies : CreateWallet(i, password, entropy)
  \/ \E i \in Slots, phrase \in ImportInputs, password \in Passwords : ImportWallet(i, phrase, password)
  \/ \E i \in Slots : CreateSeedDone(i)
  \/ \E i \in Slots : CreateAddressDone(i)
  \/ \E i \in Slots : CreateSaveDone(i)
  \/ \E i \in Slots : ClearWallet(i)
  \/ \E i \in Slots : ClearWalletsDone(i)
  \/ \E i \in Slots : ClearWalletDone(i)

SpecWallets == InitNoAutoLock /\ [][NextWallets]_vars

\* the session after unlock("pw1") on a device that holds FirstRecord
OpenedSession ==
  LET closed == [wallet |-> NoWallet, mnemonic |-> NoPhrase, privateKeys |-> EmptyMap,
                 providers |-> {}, isLocked |-> TRUE, autoLockTimer |-> NoTimer,
                 timers |-> EmptyMap]
      r == loadWallet([id \in {1} |-> FirstRecord], 1, "pw1")
  IN unlockOpened(unlockLoaded(closed, r.wallet))

\* a device that holds one wallet and the setting autoLockDelay = 0, after
\* unlock("pw1") has returned and its startAutoLock has found the delay 0
InitBackup ==
  /\ wallet = OpenedSession.wallet
  /\ mnemonic = OpenedSession.mnemonic
  /\ privateKeys = OpenedSession.privateKeys
  /\ providers = OpenedSession.providers
  /\ isLocked = OpenedSession.isLocked
  /\ autoLockTimer = OpenedSession.autoLockTimer
  /\ timers = OpenedSession.timers
  /\ autoLockPending = 0
  /\ dbWallets = [id \in {1} |-> FirstRecord]
  /\ dbSettings = [k \in {"autoLockDelay"} |-> 0]
  /\ dbTransactions = EmptyMap
  /\ dbTokens = EmptyMap
  /\ backup = NoBackup
  /\ calls = [i \in Slots |-> Idle]
  /\ nextId = 2
  /\ ret = NoRet
  /\ sinceLock = FALSE

\* backups of an existing wallet: export, import with the unlock that
\* follows it, and the writes to the collections that a backup holds
NextBackup ==
  \/ \E i \in Slots : UnlockInfoDone(i)
  \/ \E i \in Slots : UnlockLoadDone(i)
  \/ \E i \in Slots : UnlockProviderDone(i)
  \/ Lock
  \/ StartAutoLockDone
  \/ \E id \in TxInputs : SaveTransaction(id)
  \/ \E address \in TokenInputs : SaveToken(address)
  \/ \E i \in Slots, password \in Passwords : ExportBackup(i, password)
  \/ \E i \in Slots : ExportReadDone(i)
  \/ \E i \in Slots : ExportEncryptDone(i)
  \/ \E i \in Slots, file \in BackupInputs, password \in Passwords : ImportBackup(i, file, password)
  \/ \E i \in Slots : ImportDecryptDone(i)
  \/ \E i \in Slots : ImportClearDone(i)
  \/ \E i \in Slots, ok \in BOOLEAN : ImportPutDone(i, ok)

SpecBackup == InitBackup /\ [][NextBackup]_vars

\* the file that exportBackup("pw1") returned on a device that held one
\* wallet, one transaction, one token and the setting autoLockDelay = 0
ExportedBackup ==
  [format |-> "eterna-wallet-backup",
   data |-> encrypt(JSONstringify([version |-> AppVersion,
                                   wallets |-> [id \in {1} |-> FirstRecord],
                                   settings |-> [k \in {"autoLockDelay"} |-> 0],
                                   transactions |-> MapPut(EmptyMap, "tx1", [id |-> "tx1", status |-> "pending"]),
                                   tokens |-> MapPut(EmptyMap, "tok1", [address |-> "tok1"])]),
                    "pw1").envelope,
   version |-> AppVersion]

\* the opened session of InitBackup, with that file at hand
InitClear ==
  /\ wallet = OpenedSession.wallet
  /\ mnemonic = OpenedSession.mnemonic
  /\ privateKeys = OpenedSession.privateKeys
  /\ providers = OpenedSession.providers
  /\ isLocked = OpenedSession.isLocked
  /\ autoLockTimer = OpenedSession.autoLockTimer
  /\ timers = OpenedSession.timers
  /\ autoLockPending = 0
  /\ dbWallets = [id \in {1} |-> FirstRecord]
  /\ dbSettings = [k \in {"autoLockDelay"} |-> 0]
  /\ dbTransactions = EmptyMap
  /\ dbTokens = EmptyMap
  /\ backup = ExportedBackup
  /\ calls = [i \in Slots |-> Idle]
  /\ nextId = 2
  /\ ret = NoRet
  /\ sinceLock = FALSE

\* wiping the store of an existing wallet, by clearWallet and by the import
\* of a backup, while the collections are written
NextClear ==
  \/ \E i \in Slots : UnlockInfoDone(i)
  \/ \E i \in Slots : UnlockLoadDone(i)
  \/ \E i \in Slots : UnlockProviderDone(i)
  \/ StartAutoLockDone
  \/ \E id \in TxInputs : SaveTransaction(id)
  \/ \E address \in TokenInputs : SaveToken(address)
  \/ \E i \in Slots, file \in BackupInputs, password \in Passwords : ImportBackup(i, file, password)
  \/ \E i \in Slots : ImportDecryptDone(i)
  \/ \E i \in Slots : ImportClearDone(i)
  \/ \E i \in Slots, ok \in BOOLEAN : ImportPutDone(i, ok)
  \/ \E i \in Slots : ClearWallet(i)
  \/ \E i \in Slots : ClearWalletsDone(i)
  \/ \E i \in Slots : ClearWalletDone(i)

SpecClear == InitClear /\ [][NextClear]_vars

\* the wipe of an existing wallet while unlock calls are in flight
NextWipe ==
  \/ \E i \in Slots, password \in Passwords : Unlock(i, password)
  \/ \E i \in Slots : UnlockInfoDone(i)
  \/ \E i \in Slots : UnlockLoadDone(i)
  \/ \E i \in Slots : UnlockProviderDone(i)
  \/ Lock
  \/ StartAutoLockDone
  \/ \E i \in Slots : ClearWallet(i)
  \/ \E i \in Slots : ClearWalletsDone(i)
  \/ \E i \in Slots : ClearWalletDone(i)

SpecWipe == InitStored /\ [][NextWipe]_vars

\* the operations that take a chain identifier, on an opened session
NextChains ==
  \/ \E i \in Slots, password \in Passwords : Unlock(i, password)
  \/ \E i \in Slots : UnlockInfoDone(i)
  \/ \E i \in Slots : UnlockLoadDone(i)
  \/ \E i \in Slots : UnlockProviderDone(i)
  \/ Lock
  \/ StartAutoLockDone
  \/ \E chain \in ChainInputs : GetAddress(chain)
  \/ \E chain \in ChainInputs : GetBalance(chain)
  \/ \E i \in Slots, chain \in ChainInputs : GetPrivateKey(i, chain)
  \/ \E i \in Slots : GetPrivateKeyDone(i)
  \/ \E t \in 1..MaxTimers : EvictTimeout(t)
  \/ \E i \in Slots, chain \in ChainInputs, transaction \in TxObjects : SendTransaction(i, chain, transaction)
  \/ \E i \in Slots : SendKeyDone(i)
  \/ \E i \in Slots, sent \in BOOLEAN : SendBroadcastDone(i, sent)
  \/ \E i \in Slots : SendSaveDone(i)
  \/ Tick

SpecChains == InitBackup /\ [][NextChains]_vars

\* calls of the Cipher Engine and the Mnemonic Engine alone
NextEngines ==
  \/ \E data \in Plaintexts, password \in CipherPasswords, salt \in Salts, iv \in Ivs :
       EngineEncrypt(data, password, salt, iv)
  \/ \E kind \in Damages, password \in CipherPasswords : EngineDecrypt(kind, password)
  \/ \E wc \in WordCountInputs : \E entropy \in EntropyInputs(wc) : EngineGenerate(wc, entropy)
  \/ EngineValidate
  \/ \E case \in PhraseCases : EngineValidateInput(case)

SpecEngines == Init /\ [][NextEngines]_vars


----------------------------------------------------------------------------
(* Properties of the session (SpecSession) *)

\* C1: whenever the session is Locked and no createWallet, importWallet or
\* unlock call is in flight, no phrase is in memory (mnemonic and
\* wallet.mnemonic are null) and the private-key cache is empty
C1_LockedHoldsNoSecret ==
  (isLocked /\ \A i \in Slots : calls[i].op \notin {"createWallet", "importWallet", "unlock"})
    => (mnemonic = NoPhrase /\ wallet.mnemonic = NoPhrase /\ privateKeys = EmptyMap)

\* the step in which the unlock call of slot i fails at loadWallet because
\* its password does not open the stored record
WrongPasswordFails(i) ==
  /\ calls[i].op = "unlock"
  /\ calls[i].pc = "load"
  /\ calls[i].id \in DOMAIN dbWallets
  /\ ~decrypt(dbWallets[calls[i].id].encryptedMnemonic, calls[i].pw).ok
  /\ calls'[i].pc = "idle"

\* C2: unlock with a wrong password fails with DecryptionFailed and leaves
\* the session Locked, with no phrase in memory, an empty private-key cache,
\* no auto-lock timer armed and the store unchanged
C2_WrongPasswordLeavesLocked ==
  [][\A i \in Slots :
       WrongPasswordFails(i) =>
         /\ ret' = Err("unlock", "DecryptionFailed")
         /\ isLocked'
         /\ mnemonic' = NoPhrase
         /\ wallet'.mnemonic = NoPhrase
         /\ privateKeys' = EmptyMap
         /\ \A t \in DOMAIN timers' : timers'[t].kind # "autolock"
         /\ dbWallets' = dbWallets]_vars

\* C3: after lock(), getAddress and getPrivateKey fail with WalletLocked for
\* every chain, until the next successful unlock
C3_LockedOperationsFail ==
  sinceLock =>
    /\ \A chain \in ChainInputs :
         /\ getAddress(Session, chain) = [ok |-> FALSE, error |-> "WalletLocked"]
         /\ getPrivateKeyEntry(Session, chain) = [ok |-> FALSE, error |-> "WalletLocked", cached |-> FALSE]
    /\ ret.op = "getAddress" => ret = Err("getAddress", "WalletLocked")

\* a wallet was unlocked, lock() ran, and getAddress was then called
C3_Witness ==
  sinceLock /\ wallet.id # NoId /\ ret = Err("getAddress", "WalletLocked")

\* C4: two unlock calls never run interleaved: while one unlock call is in
\* flight no second one is running
C4_OneUnlockAtATime ==
  Cardinality({i \in Slots : calls[i].op = "unlock"}) <= 1

\* C5: auto-lock expiry is unconditional for every stored autoLockDelay: an
\* Unlocked session whose startAutoLock has finished has an auto-lock timer
\* pending, so that the session is Locked once the delay has elapsed
C5_ExpiryIsArmed ==
  (~isLocked /\ autoLockPending = 0) => \E t \in DOMAIN timers : timers[t].kind = "autolock"

\* C6: every private key in the cache is purged no later than the TTL
\* (30 s) after it was inserted, whatever cache hits occur in between
C6_KeysExpire ==
  \A chain \in DOMAIN privateKeys : privateKeys[chain].age <= KeyTTL

\* a key that has been in the cache for the whole TTL was just served from
\* the cache
C6_Witness ==
  /\ ret = Ok("getPrivateKey")
  /\ \E chain \in DOMAIN privateKeys : privateKeys[chain].age = KeyTTL

----------------------------------------------------------------------------
(* Properties of the wallet records (SpecWallets) *)

\* the session after lock() and then unlock(password) with the password
\* that opens the stored record
Relocked(s) ==
  LET id == getWalletInfo(dbWallets)
      r == loadWallet(dbWallets, id, dbWallets[id].encryptedMnemonic.pw)
  IN unlockOpened(unlockLoaded(lock(s), r.wallet))

deriveAddress(chain, seed) ==
  getAddressFromSeed(chains[chain], seed, [NoWallet EXCEPT !.id = 1, !.mnemonic = seed.seedOf])

\* the step in which the createWallet call of slot i returns its wallet
CreateReturns(i) ==
  /\ calls[i].op = "createWallet"
  /\ calls[i].pc = "providers"
  /\ calls'[i].op = "idle"
  /\ ret' = Ok("createWallet")

\* C8: createWallet called in state Locked, with every step succeeding,
\* ends Unlocked with the generated phrase in memory and the auto-lock timer
\* armed (or being armed), and has persisted a record whose addresses[chain]
\* is the adapter's deriveAddress(seed) for every registered chain
C8_CreateWalletResult ==
  [][\A i \in Slots :
       (CreateReturns(i) /\ calls[i].startedLocked /\ calls[i].allOk) =>
         /\ ~isLocked'
         /\ mnemonic' = calls[i].gen
         /\ (autoLockPending' > 0 \/ \E t \in DOMAIN timers' : timers'[t].kind = "autolock")
         /\ calls[i].made \in DOMAIN dbWallets'
         /\ \A chain \in DOMAIN chains :
              /\ chain \in DOMAIN dbWallets'[calls[i].made].addresses
              /\ deriveAddress(chain, calls[i].seed).ok
              /\ dbWallets'[calls[i].made].addresses[chain] = deriveAddress(chain, calls[i].seed).address]_vars

\* the step in which importWallet throws the error of validateMnemonic
ImportRejected ==
  \E i \in Slots, phrase \in ImportInputs, password \in Passwords :
    /\ ImportWallet(i, phrase, password)
    /\ validated[phrase].error \in {"Invalid word count", "Invalid word", "Invalid checksum"}

\* C9: importWallet with a phrase that fails validation fails with
\* InvalidMnemonic, persists nothing and leaves the session Locked
C9_InvalidImportLeavesLocked ==
  [][ImportRejected => (~ret'.ok /\ dbWallets' = dbWallets /\ isLocked')]_vars

\* C10: after any sequence of createWallet, importWallet and clearWallet
\* calls the wallets collection of the store holds at most one record
C10_AtMostOneRecord ==
  Cardinality(DOMAIN dbWallets) <= 1

\* a wallet record at rest carries the phrase as an envelope of the Cipher
\* Engine and has no other member that could hold it
SealedRecord(r) ==
  /\ DOMAIN r = {"id", "encryptedMnemonic", "addresses"}
  /\ DOMAIN r.encryptedMnemonic = {"pt", "pw"}
  /\ r.encryptedMnemonic.pw \in Passwords

ImportReturns(i) ==
  /\ calls[i].op = "importBackup"
  /\ calls'[i].op = "idle"

\* the wallets, transactions and tokens of a backup document
DocStores(doc) ==
  [wallets |-> doc.wallets, transactions |-> doc.transactions, tokens |-> doc.tokens]

\* C12: if importBackup fails at any step (wrong password, corrupt
\* envelope, invalid backup format, a store write error part-way through,
\* or the unlock that follows the import), the wallets, transactions and
\* tokens collections are exactly what they were before the call
C12_FailedImportLeavesData ==
  [][\A i \in Slots :
       (ImportReturns(i) /\ ~ret'.ok /\ StillQuiet(calls[i])) =>
         Stores' = calls[i].before]_vars

\* C13: after a successful importBackup the wallets, transactions and
\* tokens collections contain exactly the records of the backup document,
\* and no record that existed before the import and is absent from the
\* backup survives
C13_ImportReplacesData ==
  [][\A i \in Slots :
       (ImportReturns(i) /\ ret'.ok /\ StillQuiet(calls[i])) =>
         /\ Stores' = DocStores(calls[i].doc)
         /\ \A s \in DOMAIN Stores : \A k \in DOMAIN calls[i].before[s] :
              k \notin DOMAIN calls[i].doc[s] => k \notin DOMAIN Stores'[s]]_vars

\* an importBackup call is about to return after it has replaced a token
\* collection that held a record by the empty collection of its document
C13_Witness ==
  \E i \in Slots :
    /\ calls[i].op = "importBackup"
    /\ calls[i].pc = "providers"
    /\ StillQuiet(calls[i])
    /\ DOMAIN calls[i].before.tokens # {}
    /\ calls[i].doc.tokens = EmptyMap
    /\ dbTokens = EmptyMap

\* the file of slot i's importBackup call is one that exportBackup
\* returned, and the call passes the password of that export
ImportsOwnExport(i) ==
  /\ calls[i].file.data.pw = calls[i].pw
  /\ "wallets" \in DOMAIN JSONparse(calls[i].file.data.pt)

\* C14: for every backup password p, importBackup(exportBackup(p), p)
\* succeeds and restores the wallets, transactions and tokens collections
\* to their content at export time, also when p differs from the password
\* under which the wallet phrase itself was encrypted
C14_ExportImportRoundTrip ==
  [][\A i \in Slots :
       (ImportReturns(i) /\ ImportsOwnExport(i) /\ StillQuiet(calls[i])
          /\ ret'.err # "StorageUnavailable") =>
         /\ ret'.ok
         /\ Stores' = DocStores(JSONparse(calls[i].file.data.pt))]_vars

\* the auto-lock timers that are pending
AutoLockTimers == {t \in DOMAIN timers : timers[t].kind = "autolock"}

\* C15: at most one auto-lock timer is pending at any time and none is
\* pending while the session is Locked, also when startAutoLock calls
\* overlap while the delay setting is being loaded
C15_SingleAutoLockTimer ==
  /\ Cardinality(AutoLockTimers) <= 1
  /\ isLocked => AutoLockTimers = {}

\* the step in which the loadWallet of slot i's unlock is answered
LoadAnswered(i) ==
  /\ calls[i].pc = "load"
  /\ calls'[i].pc # "load"

\* C16: loadWallet(id, password) fails with WalletNotFound when no record
\* with that id exists and with DecryptionFailed on a bad password; unlock
\* on an empty store fails and leaves the session Locked; in all these
\* cases the store is unchanged
C16_LoadWalletErrors ==
  [][\A i \in Slots :
       /\ (LoadAnswered(i) /\ calls[i].id \notin DOMAIN dbWallets) =>
            /\ ret' = Err(calls[i].op, "WalletNotFound")
            /\ isLocked'
            /\ dbWallets' = dbWallets
       /\ (LoadAnswered(i) /\ calls[i].id \in DOMAIN dbWallets
             /\ dbWallets[calls[i].id].encryptedMnemonic.pw # calls[i].pw) =>
            /\ ret' = Err(calls[i].op, "DecryptionFailed")
            /\ isLocked'
            /\ dbWallets' = dbWallets
       /\ (calls[i].pc = "info" /\ calls'[i].pc # "info" /\ dbWallets = EmptyMap) =>
            /\ ~ret'.ok
            /\ calls'[i].op = "idle"
            /\ isLocked'
            /\ dbWallets' = dbWallets]_vars

\* an unlock has failed because the record it was about to load is gone
C16_Witness ==
  /\ ret = Err("unlock", "WalletNotFound")
  /\ isLocked
  /\ dbWallets = EmptyMap

\* chain identifiers for which initChains registered no adapter
UnknownChains == ChainInputs \ DOMAIN chains

\* C17: getAddress, getPrivateKey and getBalance called while Unlocked with
\* a chain identifier for which no adapter is registered all fail with the
\* same UnsupportedChain error and change neither the session state nor
\* the private-key cache
C17_UnknownChainError ==
  [][\A chain \in UnknownChains :
       (/\ ~isLocked
        /\ mnemonic # NoPhrase
        /\ \/ GetAddress(chain)
           \/ GetBalance(chain)
           \/ \E i \in Slots : GetPrivateKey(i, chain)) =>
         /\ ~ret'.ok
         /\ ret'.err = "UnsupportedChain"
         /\ isLocked' = isLocked
         /\ privateKeys' = privateKeys]_vars

\* the decrypt call was given a wrong or empty password or a damaged envelope
BadDecrypt == ret.pw # ret.sealedWith \/ Len(ret.pw) = 0 \/ ret.damage # "none"

\* C18: decrypt reports one undifferentiated error outcome
\* (DecryptionFailed, identical error value) whether the password is wrong
\* or empty, the envelope is corrupted or truncated, or the ciphertext or
\* tag was tampered with
C18_OneDecryptionError ==
  /\ (ret.op = "decrypt" /\ BadDecrypt) => ~ret.ok
  /\ (ret.op = "decrypt" /\ ~ret.ok) =>
       ret = [op |-> "decrypt", ok |-> FALSE, err |-> "DecryptionFailed",
              data |-> ret.data, sealedWith |-> ret.sealedWith, pw |-> ret.pw,
              damage |-> ret.damage, buffers |-> ret.buffers, value |-> NoValue]

\* decrypt has failed on a text that is not base64, although the password
\* given was the one that sealed the envelope
C18_Witness ==
  /\ ret.op = "decrypt"
  /\ ~ret.ok
  /\ ret.damage = "notBase64"
  /\ ret.pw = ret.sealedWith

\* C19: decrypt(encrypt(plaintext, password), password) equals plaintext
\* for arbitrary byte payloads (string or byte-array input), including the
\* empty input
C19_CipherRoundTrip ==
  (ret.op = "decrypt" /\ ret.damage = "none" /\ ret.pw = ret.sealedWith) =>
    (ret.ok /\ ret.value = ret.data)

\* C20: for every valid word count (12, 15, 18, 21, 24) and every entropy
\* value drawn, the phrase returned by generateMnemonic satisfies
\* validateMnemonic(phrase).valid = true
C20_GeneratedPhraseIsValid ==
  (ret.op = "validateMnemonic" /\ SeqIncludes(wordCount, ret.wc)) => ret.valid

\* the phrase has a valid length and is made of dictionary words
WellFormed(phrase) ==
  /\ SeqIncludes(wordCount, Len(phrase))
  /\ \A k \in 1..Len(phrase) : SeqIncludes(wordList, phrase[k])

\* the checksum bits carried in the trailing bits of the phrase
EmbeddedChecksum(phrase) ==
  LET bits == Flatten([k \in 1..Len(phrase) |-> numberToBits(IndexOf(wordList, phrase[k]), 11)])
  IN Slice(bits, Len(bits) - Len(bits) \div 33, Len(bits))

\* the first entropyBits/32 bits of the hash of the phrase's entropy
HashChecksum(phrase) ==
  LET entropy == mnemonicToEntropy(phrase)
  IN Slice(byteToBits(DigestFirstByte[entropy]), 0, (Len(entropy) * 8) \div 32)

\* C21: for a phrase of valid length made of dictionary words,
\* validateMnemonic returns valid = true if and only if the checksum bits
\* carried in the phrase's trailing bits equal the first entropyBits/32 bits
\* of the hash of the phrase's entropy; a phrase whose embedded checksum
\* bits differ is rejected with a checksum error
C21_ChecksumDecidesValidity ==
  (ret.op = "validateInput" /\ WellFormed(ret.phrase)) =>
    /\ ret.valid <=> (EmbeddedChecksum(ret.phrase) = HashChecksum(ret.phrase))
    /\ ~ret.valid => ret.error = "Invalid checksum"

\* the reason that validateMnemonic gives for each kind of malformed input
ReasonFor(kind) ==
  IF kind = "notAString" THEN "Invalid mnemonic format"
  ELSE IF kind = "wrongCount" THEN "Invalid word count"
  ELSE IF kind \in {"unknownWord", "wrongCase"} THEN "Invalid word"
  ELSE "Invalid checksum"

\* C22: for every malformed input (non-string, empty, wrong word count,
\* unknown word, wrong case, bad checksum) validateMnemonic returns
\* valid = false with a specific reason and never throws
C22_ValidateFailsClosed ==
  (ret.op = "validateInput" /\ ret.kind # "good") =>
    /\ ret.ok
    /\ ~ret.valid
    /\ ret.error = ReasonFor(ret.kind)

\* validateMnemonic has rejected a phrase whose last word is in the wrong case
C22_Witness ==
  /\ ret.op = "validateInput"
  /\ ret.kind = "wrongCase"
  /\ ~ret.valid
  /\ ret.error = "Invalid word"

\* C23: generateMnemonic(wordCount) fails with InvalidWordCount for every
\* wordCount that is not one of 12, 15, 18, 21, 24, and draws no entropy in
\* that case
C23_InvalidWordCount ==
  (ret.op = "generateMnemonic" /\ ret.wc \notin {12, 15, 18, 21, 24}) =>
    /\ ~ret.ok
    /\ ret.err = "InvalidWordCount"
    /\ ret.drawn = 0
    /\ ret.value = NoPhrase

\* generateMnemonic(13) has failed
C23_Witness ==
  /\ ret.op = "generateMnemonic"
  /\ ret.wc = 13
  /\ ~ret.ok

\* C24: when deriveKey, encrypt or decrypt returns or throws, every
\* intermediate buffer that held the encoded password, the plaintext bytes
\* or the decrypted bytes has been overwritten with zeros, on the success
\* path and on every error path and for every buffer type the code uses
C24_BuffersZeroed ==
  (ret.op \in {"encrypt", "decrypt"}) =>
    \A n \in 1..Len(ret.buffers) : \A k \in 1..Len(ret.buffers[n].units) :
      ret.buffers[n].units[k] = 0

----------------------------------------------------------------------------
\* C25: when saveWallet returns, the caller's record object has no phrase
\* (record.mnemonic is null) and the record in the store carries the phrase
\* only inside its encrypted envelope, sealed with the given password
C25_SaveWalletScrubsRecord ==
  [][\A i \in Slots :
       (calls[i].pc = "save" /\ calls'[i].pc = "info") =>
         /\ calls'[i].data = NoPhrase
         /\ calls[i].made \in DOMAIN dbWallets'
         /\ dbWallets'[calls[i].made] =
              [id |-> calls[i].made,
               encryptedMnemonic |-> [pt |-> calls[i].data, pw |-> calls[i].pw],
               addresses |-> calls[i].addresses]]_vars

\* a saveWallet has returned: its record is in the store, sealed
C25_Witness ==
  \E i \in Slots :
    /\ calls[i].op \in {"createWallet", "importWallet"}
    /\ calls[i].pc = "info"
    /\ calls[i].data = NoPhrase
    /\ calls[i].made \in DOMAIN dbWallets
    /\ dbWallets[calls[i].made].encryptedMnemonic.pt # NoPhrase

----------------------------------------------------------------------------
\* a step in which startAutoLock is called: by a successful unlock or by
\* resetAutoLock while Unlocked (the activity signal)
ActivityStep == autoLockPending' = autoLockPending + 1

\* C26: the auto-lock timeout never locks earlier than the configured delay
\* after the latest successful unlock or resetAutoLock: no countdown that
\* was started before that activity is still pending after it, so only
\* countdowns armed later, with the full delay, can fire
C26_ActivityCancelsCountdowns ==
  [][ActivityStep => AutoLockTimers' = {}]_vars

----------------------------------------------------------------------------
\* slot i's call leaves the program position pc in this step
Leaves(i, pc) == calls[i].pc = pc /\ calls'[i].pc # pc

----------------------------------------------------------------------------
\* a clearWallet has completed and none is in flight (under SpecWipe no
\* call writes a wallet record, so an empty store is the work of clearWallet)
Wiped == dbWallets = EmptyMap /\ \A i \in Slots : calls[i].op # "clearWallet"

\* C28: after clearWallet completes, under any interleaving with a
\* concurrent unlock, the session is Locked and no wallet record is in
\* memory or in the store (isInitialized, which asks the store, is false)
C28_WipeDestroysWallet ==
  Wiped => (isLocked /\ wallet = NoWallet /\ mnemonic = NoPhrase /\ getWalletInfo(dbWallets) = NoId)

----------------------------------------------------------------------------
\* C29: whenever the session is Unlocked (isLocked = false), the plaintext
\* phrase and the wallet record are in memory (mnemonic and wallet are not
\* null), under every interleaving of unlock, lock, createWallet,
\* importWallet, clearWallet and failing calls
C29_UnlockedHasPhrase ==
  ~isLocked => (mnemonic # NoPhrase /\ wallet # NoWallet)

\* the phrase that a stored record carries in its envelope
PhraseOf(r) == r.encryptedMnemonic.pt

\* C30: every record that createWallet or importWallet has persisted is
\* self-consistent: each stored address is the one the chain's adapter
\* derives from the seed of the phrase encrypted in that same record
C30_RecordSelfConsistent ==
  \A id \in DOMAIN dbWallets :
    \A chain \in DOMAIN dbWallets[id].addresses :
      LET d == deriveAddress(chain, mnemonicToSeed(PhraseOf(dbWallets[id])))
      IN d.ok /\ dbWallets[id].addresses[chain] = d.address

----------------------------------------------------------------------------
\* the step in which the createWallet or importWallet call of slot i
\* returns this.wallet
WalletCallReturns(i) ==
  /\ calls[i].op \in {"createWallet", "importWallet"}
  /\ calls[i].pc = "providers"
  /\ calls'[i].op = "idle"
  /\ ret'.ok

\* C31: when createWallet or importWallet succeeds, the record it returns
\* and the phrase in memory are those of the wallet just created or
\* imported (the returned id is the id just persisted), also when the store
\* held a wallet record before the call (stated for the returns at which
\* no lock() or clearWallet() has emptied the memory since the call loaded
\* its record)
C31_ReturnsOwnWallet ==
  [][\A i \in Slots :
       (WalletCallReturns(i) /\ mnemonic # NoPhrase /\ wallet # NoWallet) =>
         (wallet'.id = calls[i].made /\ mnemonic' = calls[i].gen)]_vars

----------------------------------------------------------------------------
\* the step in which the createWallet or importWallet call of slot i throws
WalletCallFails(i) ==
  /\ calls[i].op \in {"createWallet", "importWallet"}
  /\ calls'[i].op = "idle"
  /\ ~ret'.ok

\* the step in which importWallet throws before its first await
ImportThrows ==
  \E i \in Slots, phrase \in ImportInputs, password \in Passwords :
    ImportWallet(i, phrase, password) /\ ~validated[phrase].valid

\* C32: when createWallet or importWallet fails at any step, no new wallet
\* record has been persisted and the session is Locked with no phrase in
\* memory, whatever the session state was when the call started
C32_FailedCallLeavesLocked ==
  [][/\ \A i \in Slots :
          WalletCallFails(i) =>
            (isLocked' /\ mnemonic' = NoPhrase /\ calls[i].made \notin DOMAIN dbWallets')
     /\ ImportThrows => (isLocked' /\ mnemonic' = NoPhrase /\ dbWallets' = dbWallets)]_vars

----------------------------------------------------------------------------
\* the step in which the sendTransaction call of slot i ends after the
\* adapter has returned a hash (a wallet record that has no address for
\* the chain is left aside here)
SendEndsBroadcast(i) ==
  /\ calls[i].op = "sendTransaction"
  /\ calls[i].pc \in {"broadcast", "saveTx"}
  /\ calls'[i].op = "idle"
  /\ ret'.err \notin {"BroadcastFailed", "NoAddress"}

\* C33: every transaction that sendTransaction broadcast successfully is
\* recorded in the transaction history, also when lock() runs while the
\* call is in flight; and no transaction is handed to the adapter for
\* signing when the session is Locked at the time the key is obtained
C33_BroadcastIsRecorded ==
  [][\A i \in Slots :
       /\ SendEndsBroadcast(i) => calls[i].tx.hash \in DOMAIN dbTransactions'
       /\ (calls[i].pc = "sendKey" /\ isLocked) => calls'[i].pc # "broadcast"]_vars

----------------------------------------------------------------------------
\* C34: the eviction timer of an earlier getPrivateKey call, left over from
\* before a lock()/unlock() cycle, never removes a newer entry cached for
\* the same chain before that entry's own TTL has elapsed: an entry that an
\* eviction timer removes has been in the cache for the TTL
C34_EvictionHitsOwnEntry ==
  [][\A t \in 1..MaxTimers :
       (EvictTimeout(t) /\ timers[t].chain \in DOMAIN privateKeys) =>
         privateKeys[timers[t].chain].age >= KeyTTL]_vars

----------------------------------------------------------------------------
\* C35: after a successful createWallet or importWallet the persisted record
\* and the wallet in memory have an address for every chain registered
\* with the Session Manager, so that getAddress(chain) succeeds: a failed
\* derivation fails the call instead
C35_EveryChainHasAddress ==
  [][\A i \in Slots :
       WalletCallReturns(i) =>
         \A chain \in DOMAIN chains :
           /\ calls[i].made \in DOMAIN dbWallets' =>
                chain \in DOMAIN dbWallets'[calls[i].made].addresses
           /\ wallet' # NoWallet => chain \in DOMAIN wallet'.addresses]_vars

====
